---------------------------- MODULE Spec2Model ----------------------------
(***************************************************************************)
(* Model of the osu-taiko-drum firmware hit-detection pipeline:            *)
(*   - SampleWindow (src/src/parser.rs): FIFO ring + sorted copy           *)
(*   - Parser::parse (src/src/parser.rs): threshold detector and pairwise  *)
(*     cross-correlation pass                                              *)
(*   - xcorr (src/src/cross_correlation.rs)                                *)
(*   - PiezoSensorHandler::send (src/src/piezo.rs) and the RTIC tasks of   *)
(*     src/src/lib.rs that share the bounded sample queue                  *)
(*   - Programmer::program (src/src/prog.rs) and the byte format of a      *)
(*     DrumConfig                                                          *)
(*                                                                         *)
(* The specifications share the variables:                                 *)
(*   SpecWindow    drives one SampleWindow with arbitrary values,          *)
(*   SpecDeviation applies check_deviation to window statistics,           *)
(*   SpecParser    drives Parser::parse with four channels of waveforms,   *)
(*   SpecXcorr     runs one pair comparison of the second stage,           *)
(*   SpecPipe      interleaves the ADC1_2 handler with the RTIC tasks,     *)
(*   SpecStartup   is SpecPipe preceded by the end of app::Init,           *)
(*   SpecSend      calls PiezoSensorHandler::send on its own,              *)
(*   SpecConfig    runs app::Parser against the serial programmer,         *)
(*   SpecStuck     drives Parser::parse with readings held at one level,   *)
(*   SpecSelf      correlates a signal with an exact copy of itself,       *)
(*   SpecProduct   follows the i16 arithmetic of xcorr on step signals,    *)
(*   SpecPass      runs the pairwise pass under every delay outcome,       *)
(*   SpecMode      calls PiezoSensorHandler::set_interrupt_mode on its own,*)
(*   SpecProgram   feeds Programmer::program with commands of the host,    *)
(*   SpecSerial    deserializes what DrumConfig::serialize wrote.          *)
(* Arrays are 0-based functions as in the source; heapless::Vec is a       *)
(* sequence whose Rust index i is TLA+ index i + 1.                        *)
(***************************************************************************)
EXTENDS Integers, Sequences, FiniteSets, TLC

VARIABLES
    win,        \* SpecWindow: one SampleWindow<i16, WINDOW_SIZE>
    stored,     \* SpecWindow: every value passed to store() so far, in order
    panicked,   \* a panic!/expect/assert of the firmware has fired ("" if none)
    windows,    \* Parser.windows: [0..3 -> SampleWindow]
    states,     \* Parser.states:  [0..3 -> BOOLEAN]
    ret,        \* what the last Parser::parse call returned
    last,       \* record of the last parse call (pre-state, first stage, log lines)
    reported,   \* ChannelState carried by the last report returned (all FALSE before)
    wave,       \* SpecParser: the waveform each channel plays in the current period
    xc,         \* SpecXcorr: one pair comparison, its inputs and its outcome
    hw,         \* PiezoSensorHandler.mode and the ADC1 / TIM4 bits it drives
    queue,      \* the rtic_sync channel between SensorHandling and app::Parser
    adc_unmasked,   \* NVIC: the ADC1_2 interrupt is enabled
    receiver_alive, \* the Receiver half of the channel has not been dropped
    pc,         \* app::Parser: "recv", "lock", "enable" or "delay"
    held,       \* app::Parser: the sample recv() returned, not yet parsed
    sender,     \* app::UsbHidSender: the report it was spawned with, or NoReport
    produced,   \* number of samples read() has taken from the data registers
    accepted,   \* production numbers of the samples try_send() enqueued
    parsed,     \* production numbers of the samples handed to Parser::parse
    recv_since_disable, \* a recv() returned since ADC1_2 was last masked
    sent,       \* record of the last call on the handler (what it found, what it did)
    prog_cfg,   \* dev.programmer.cfg, the configuration the programmer holds
    lock_cfg,   \* the configuration when app::Parser took the usb_dev lock
    dev,        \* SpecDeviation: one check_deviation call, its inputs and result
    flash,      \* the configuration page of the flash: save() calls and content
    reset,      \* app::FirmwareReset: "idle", "spawned" or "delay"
    prog        \* record of the last Programmer::program call

windowVars == <<win, stored>>
parserVars == <<windows, states, ret, last, reported>>
pipeVars == <<hw, queue, adc_unmasked, receiver_alive, pc, held, sender,
              produced, accepted, parsed, recv_since_disable, sent>>
sideVars == <<prog_cfg, lock_cfg, dev, flash, reset, prog>>
vars == <<win, stored, panicked, windows, states, ret, last, reported, wave, xc,
          hw, queue, adc_unmasked, receiver_alive, pc, held, sender,
          produced, accepted, parsed, recv_since_disable, sent, prog_cfg, lock_cfg, dev,
          flash, reset, prog>>

-----------------------------------------------------------------------------
(* Bounds *)

\* log2 of the window capacity: WINDOW_SIZE must stay a power of two.
WindowBits == 2

\* SpecWindow: number of store() calls explored.
MaxStores == 6

\* Centred sample values offered to store() in SpecWindow.
StoreValues == {-5, 0, 5, 10, 15, 20}

-----------------------------------------------------------------------------
(* Program constants *)

WINDOW_SIZE == 2 ^ WindowBits

-----------------------------------------------------------------------------
(* Integer helpers *)

RECURSIVE BitAnd(_, _)
\* a & b on non-negative integers.
BitAnd(a, b) ==
    IF a = 0 \/ b = 0 THEN 0
    ELSE (IF a % 2 = 1 /\ b % 2 = 1 THEN 1 ELSE 0) + 2 * BitAnd(a \div 2, b \div 2)

Abs(x) == IF x < 0 THEN -x ELSE x

RECURSIVE Tabulate(_, _, _)
\* <<F(lo), ..., F(hi)>>, every element computed once.
Tabulate(F(_), lo, hi) == IF lo > hi THEN <<>> ELSE <<F(lo)>> \o Tabulate(F, lo + 1, hi)

\* The 0-based array [F(0), ..., F(n - 1)].
ArrayOf(F(_), n) ==
    LET t == Tabulate(F, 0, n - 1)
    IN  [k \in 0..(n - 1) |-> t[k + 1]]

-----------------------------------------------------------------------------
(* slice / heapless::Vec primitives used by SampleWindow *)

RECURSIVE bs_loop(_, _, _, _)
\* The loop of slice::binary_search_by: halve `size` keeping `base` on the
\* last probed element that is not Greater than x.
bs_loop(s, x, base, size) ==
    IF size > 1
    THEN LET half == size \div 2
             mid  == base + half
         IN  bs_loop(s, x, IF s[mid + 1] > x THEN base ELSE mid, size - half)
    ELSE base

\* slice::binary_search: [ok |-> TRUE, i] is Ok(i), [ok |-> FALSE, i] is Err(i).
binary_search(s, x) ==
    IF Len(s) = 0 THEN [ok |-> FALSE, i |-> 0]
    ELSE LET base == bs_loop(s, x, 0, Len(s))
         IN  IF s[base + 1] = x THEN [ok |-> TRUE, i |-> base]
             ELSE [ok |-> FALSE, i |-> base + (IF s[base + 1] < x THEN 1 ELSE 0)]

\* Mutant of vec_remove: the first element is dropped whatever i is.
vec_remove_first(s, i) == Tail(s)

\* Vec::remove(i): drop the element at Rust index i, shifting the tail left.
vec_remove(s, i) == SubSeq(s, 1, i) \o SubSeq(s, i + 2, Len(s))

\* Mutant of vec_insert: the element is put in front whatever i is.
vec_insert_front(s, i, x) == <<x>> \o s

\* Vec::insert(i, x) on a vector with room: shift the tail right.
vec_insert(s, i, x) == SubSeq(s, 1, i) \o <<x>> \o SubSeq(s, i + 1, Len(s))

is_sorted(s) == \A k \in 1..(Len(s) - 1) : s[k] <= s[k + 1]

-----------------------------------------------------------------------------
(* SampleWindow *)

\* SampleWindow::new(filler)
SampleWindow_new(filler) ==
    [ sorted     |-> [k \in 1..WINDOW_SIZE |-> filler],
      fifo       |-> [k \in 0..(WINDOW_SIZE - 1) |-> filler],
      index_fifo |-> 0 ]

\* Mutant of next_index: the mask N instead of N - 1.
next_index_wrong_mask(idx) == BitAnd(idx + 1, WINDOW_SIZE)

\* The cursor after one store: (index_fifo + 1) & (N - 1).
next_index(idx) == BitAnd(idx + 1, WINDOW_SIZE - 1)

\* Mutant of fifo_write: the slot after the cursor is overwritten.
fifo_write_next(fifo, idx, new) ==
    ArrayOf(LAMBDA k : IF k = (idx + 1) % WINDOW_SIZE THEN new ELSE fifo[k], WINDOW_SIZE)

\* self.fifo[self.index_fifo] = new
fifo_write(fifo, idx, new) ==
    ArrayOf(LAMBDA k : IF k = idx THEN new ELSE fifo[k], WINDOW_SIZE)

\* SampleWindow::store(new): the outcome is the window after the call and the
\* fatal path taken, "" when the call returns normally.  On a fatal path the
\* window is left as it was when the panic fired.
store_outcome(w, new) ==
    LET old == w.fifo[w.index_fifo]
        r   == binary_search(w.sorted, old)
    IN  IF ~r.ok
        THEN [w |-> w, panic |-> "desync"]
        ELSE LET removed == vec_remove(w.sorted, r.i)
                 p       == binary_search(removed, new)
             IN  IF Len(removed) >= WINDOW_SIZE
                 THEN [w |-> [sorted |-> removed, fifo |-> w.fifo,
                             index_fifo |-> w.index_fifo], panic |-> "full"]
                 ELSE LET w2 == [ sorted     |-> vec_insert(removed, p.i, new),
                                  fifo       |-> fifo_write(w.fifo, w.index_fifo, new),
                                  index_fifo |-> next_index(w.index_fifo) ]
                      IN  [w |-> w2,
                           panic |-> IF is_sorted(w2.sorted) THEN "" ELSE "unsorted"]

store(w, new) == store_outcome(w, new).w

\* SampleWindow::min / max / threshold
min(w) == w.sorted[1]
max(w) == w.sorted[Len(w.sorted)]

\* Mutant of threshold: the element below the median index.
threshold_below(w) == w.sorted[WINDOW_SIZE \div 2]

threshold(w) == w.sorted[(WINDOW_SIZE \div 2) + 1]


-----------------------------------------------------------------------------
(* Cross-correlation *)

RECURSIVE SumTo(_, _)
\* F(0) + ... + F(n)
SumTo(F(_), n) == IF n < 0 THEN 0 ELSE F(n) + SumTo(F, n - 1)

\* Index of the maximum of f over 0..(n-1) as Iterator::max_by_key returns it:
\* the last one of several equal maxima.
max_by_key(f, n) ==
    CHOOSE m \in 0..(n - 1) :
        /\ \A k \in 0..(n - 1) : f[k] <= f[m]
        /\ \A k \in (m + 1)..(n - 1) : f[k] < f[m]

\* xcorr(signal, signal_median, reference, reference_median).
\* The two forward transforms, the product z1 * conj(z2) and the inverse
\* transform are modelled by the circular cross-correlation they compute,
\*   corr[k] = SUM_n (signal[n+k] - signal_median) * (reference[n] - reference_median),
\* in exact integer arithmetic; rotate_right(N/2) and the arg-max follow the source.
\* N is the length of the arrays passed.
xcorr(signal, signal_median, reference, reference_median) ==
    LET N    == Cardinality(DOMAIN signal)
        bs   == ArrayOf(LAMBDA i : signal[i] - signal_median, N)
        br   == ArrayOf(LAMBDA i : reference[i] - reference_median, N)
        corr == ArrayOf(LAMBDA k : SumTo(LAMBDA n : bs[(n + k) % N] * br[n], N - 1), N)
        rot  == ArrayOf(LAMBDA m : corr[(m + N - (N \div 2)) % N], N)
    IN  max_by_key(rot, N) - (N \div 2)

-----------------------------------------------------------------------------
(* Parser *)

MID_RANGE == 2048

Channels == 0..3

(* f32 arithmetic as check_deviation uses it.  A non-negative f32 is "zero", *)
(* "inf", "nan" or a finite [m, e] standing for m * 2^e with                 *)
(* 2^23 <= m < 2^24.  Integers below 2^24 convert to f32 exactly.            *)

F32_ZERO == [kind |-> "zero", m |-> 0, e |-> 0]
F32_INF  == [kind |-> "inf", m |-> 0, e |-> 0]
F32_NAN  == [kind |-> "nan", m |-> 0, e |-> 0]

RECURSIVE f32_normalise(_, _, _)
\* Scale a / b by a power of two into [1, 2): the result is (num / den) * 2^k.
f32_normalise(a, b, k) ==
    IF a >= 2 * b THEN f32_normalise(a, 2 * b, k + 1)
    ELSE IF a < b THEN f32_normalise(2 * a, b, k - 1)
    ELSE [num |-> a, den |-> b, k |-> k]

RECURSIVE f32_quotient_bits(_, _, _, _)
\* n more bits of r / den appended to m by long division; r ends as twice
\* the remainder.
f32_quotient_bits(r, den, m, n) ==
    IF n = 0 THEN [m |-> m, r |-> r]
    ELSE IF r >= den THEN f32_quotient_bits(2 * (r - den), den, 2 * m + 1, n - 1)
    ELSE f32_quotient_bits(2 * r, den, 2 * m, n - 1)

\* Round to nearest, ties to even: q holds 24 quotient bits and twice the
\* remainder, the value is q.m * 2^e plus the part the remainder stands for.
f32_round(q, den, e) ==
    IF q.r > den \/ (q.r = den /\ q.m % 2 = 1)
    THEN (IF q.m + 1 = 2 ^ 24 THEN [kind |-> "fin", m |-> 2 ^ 23, e |-> e + 1]
          ELSE [kind |-> "fin", m |-> q.m + 1, e |-> e])
    ELSE [kind |-> "fin", m |-> q.m, e |-> e]

f32_div_normalised(n) == f32_round(f32_quotient_bits(n.num, n.den, 0, 24), n.den, n.k - 23)

\* a as f32 / b as f32 for integers 0 <= a, b < 2^24: the IEEE quotient,
\* x / 0 being +inf and 0 / 0 NaN.
f32_div(a, b) ==
    IF b = 0 THEN (IF a = 0 THEN F32_NAN ELSE F32_INF)
    ELSE IF a = 0 THEN F32_ZERO
    ELSE f32_div_normalised(f32_normalise(a, b, 0))

\* Mutant of f32_gt: a NaN on the left compares greater.
f32_gt_nan_greater(x, y) ==
    IF x.kind = "nan" THEN TRUE
    ELSE IF y.kind = "nan" THEN FALSE
    ELSE IF x.kind = "inf" THEN y.kind # "inf"
    ELSE IF y.kind = "inf" \/ x.kind = "zero" THEN FALSE
    ELSE IF y.kind = "zero" THEN TRUE
    ELSE x.e > y.e \/ (x.e = y.e /\ x.m > y.m)

\* x > y on non-negative f32 values; false when either is NaN.
f32_gt(x, y) ==
    IF x.kind = "nan" \/ y.kind = "nan" THEN FALSE
    ELSE IF x.kind = "inf" THEN y.kind # "inf"
    ELSE IF y.kind = "inf" \/ x.kind = "zero" THEN FALSE
    ELSE IF y.kind = "zero" THEN TRUE
    ELSE x.e > y.e \/ (x.e = y.e /\ x.m > y.m)

\* relative_deviation(median, value, scale)
relative_deviation(median, value, scale) == f32_div(Abs(value - median), scale)

\* max_dev > pc || min_dev > pc, where pc = percent as f32 / 100f32 is `limit`.
exceeds(max_dev, min_dev, limit) == f32_gt(max_dev, limit) \/ f32_gt(min_dev, limit)

\* Mutant of check_deviation: the comparison is not strict.
check_deviation_not_strict(median, min_val, max_val, scale, percent) ==
    ~exceeds(f32_div(percent, 100), f32_div(percent, 100),
             relative_deviation(median, max_val, scale))
    \/ ~exceeds(f32_div(percent, 100), f32_div(percent, 100),
                relative_deviation(median, min_val, scale))

\* check_deviation(median, min_val, max_val, scale, percent)
check_deviation(median, min_val, max_val, scale, percent) ==
    exceeds(relative_deviation(median, max_val, scale),
            relative_deviation(median, min_val, scale),
            f32_div(percent, 100))

\* DrumHitStrokeHidReport::new(keys): the first 6 keys, zero padded.
DrumHitStrokeHidReport_new(keys) ==
    [k \in 0..5 |-> IF k < Len(keys) THEN keys[k + 1] ELSE 0]

RECURSIVE filter_keys_mirrored(_, _, _)
\* Mutant of filter_keys: the key array is zipped in reverse order.
filter_keys_mirrored(st, keymap, c) ==
    IF c > 3 THEN <<>>
    ELSE (IF st[c] THEN <<keymap[3 - c]>> ELSE <<>>) \o filter_keys_mirrored(st, keymap, c + 1)

RECURSIVE filter_keys(_, _, _)
\* The keys of the channels c..3 whose state is hit, in channel order.
filter_keys(st, keymap, c) ==
    IF c > 3 THEN <<>>
    ELSE (IF st[c] THEN <<keymap[c]>> ELSE <<>>) \o filter_keys(st, keymap, c + 1)

\* Parser::current(hit_mapping); hit_mapping is the array
\* [left_kat, left_don, right_don, right_kat] indexed by channel.
current(st, hit_mapping) == DrumHitStrokeHidReport_new(filter_keys(st, hit_mapping, 0))

\* Mutant of channel_evaluate: a channel that does not deviate leaves
\* state_change alone.
channel_evaluate_quiet_release(w, b, sharp, sens) ==
    IF check_deviation(threshold(w), min(w), max(w), sharp, sens)
    THEN [w |-> w, b |-> TRUE, second_stage |-> ~b, state_change |-> ~b,
          evaluated |-> TRUE, panic |-> ""]
    ELSE [w |-> w, b |-> FALSE, second_stage |-> FALSE, state_change |-> FALSE,
          evaluated |-> TRUE, panic |-> ""]

\* The evaluation of one channel whose window w has just wrapped: the new
\* state of the channel and the two flags of parse.
channel_evaluate(w, b, sharp, sens) ==
    IF check_deviation(threshold(w), min(w), max(w), sharp, sens)
    THEN [w |-> w, b |-> TRUE, second_stage |-> ~b, state_change |-> ~b,
          evaluated |-> TRUE, panic |-> ""]
    ELSE [w |-> w, b |-> FALSE, second_stage |-> FALSE, state_change |-> TRUE,
          evaluated |-> TRUE, panic |-> ""]

\* A channel that is not evaluated by this call; o is the outcome of its store.
channel_skip(o, b) ==
    [w |-> o.w, b |-> b, second_stage |-> FALSE, state_change |-> FALSE,
     evaluated |-> FALSE, panic |-> o.panic]

\* The closure body after w.store(..), o being the outcome of the store.
channel_after_store(o, b, sharp, sens) ==
    IF o.panic # "" THEN channel_skip(o, b)
    ELSE IF o.w.index_fifo = 0 THEN channel_evaluate(o.w, b, sharp, sens)
    ELSE channel_skip(o, b)

channel_after_store_every_call(o, b, sharp, sens) ==
    IF o.panic # "" THEN channel_skip(o, b)
    ELSE channel_evaluate(o.w, b, sharp, sens)

channel_after_store_before_wrap(o, b, sharp, sens) ==
    IF o.panic # "" THEN channel_skip(o, b)
    ELSE IF o.w.index_fifo = WINDOW_SIZE - 1 THEN channel_evaluate(o.w, b, sharp, sens)
    ELSE channel_skip(o, b)

\* Mutant of channel_step: the raw reading is stored, not the centred one.
channel_step_uncentred(w, s, b, sharp, sens) ==
    channel_after_store(store_outcome(w, s), b, sharp, sens)

\* Mutant of channel_step: the channel is evaluated on every call.
channel_step_every_call(w, s, b, sharp, sens) ==
    channel_after_store_every_call(store_outcome(w, s - MID_RANGE), b, sharp, sens)

\* Mutant of channel_step: the channel is evaluated before the cursor wraps.
channel_step_before_wrap(w, s, b, sharp, sens) ==
    channel_after_store_before_wrap(store_outcome(w, s - MID_RANGE), b, sharp, sens)

\* First stage of Parser::parse on one channel: store, then evaluate when the
\* cursor has wrapped to 0.  b is the channel's state before the call.
channel_step(w, s, b, sharp, sens) ==
    channel_after_store(store_outcome(w, s - MID_RANGE), b, sharp, sens)

\* Mutant of delay_match: a delay of 0 clears neither channel.
delay_match_zero_keeps_both(st, i, j, delay) ==
    LET cleared == IF delay < 0 THEN i ELSE IF delay > 0 THEN j ELSE 4
    IN  ArrayOf(LAMBDA c : IF c = cleared THEN FALSE ELSE st[c], 4)

\* Mutant of delay_match: a negative delay clears both channels.
delay_match_negative_clears_both(st, i, j, delay) ==
    ArrayOf(LAMBDA c : IF c = j \/ (c = i /\ delay < 0) THEN FALSE ELSE st[c], 4)

\* Mutant of delay_match: the two arms of the match exchanged.
delay_match_swapped(st, i, j, delay) ==
    LET cleared == IF delay < 0 THEN j ELSE i
    IN  ArrayOf(LAMBDA c : IF c = cleared THEN FALSE ELSE st[c], 4)

\* One (i, j) iteration of the inner loop, given the delay xcorr returned.
delay_match(st, i, j, delay) ==
    LET cleared == IF delay < 0 THEN i ELSE j
    IN  ArrayOf(LAMBDA c : IF c = cleared THEN FALSE ELSE st[c], 4)

\* The match on the delay of the pair (i, j), and its log line.
pair_matched(acc, i, j, delay, st2) ==
    [st  |-> st2,
     log |-> Append(acc.log, [i |-> i, j |-> j, delay |-> delay,
                              before |-> acc.st, after |-> st2])]

pair_compare(acc, i, j, delay) == pair_matched(acc, i, j, delay, delay_match(acc.st, i, j, delay))

\* The pairs (i, j) the nested loops range over.
ChannelPairs == {p \in Channels \X Channels : p[1] < p[2]}

RECURSIVE pass_loop(_, _, _, _)
\* The nested loops from (i, j) on.  acc.st is self.states, acc.log the lines
\* "piezo{i} ~ piezo{j} = {delay}" with the states before and after the match;
\* dl[<<i, j>>] is the delay xcorr returns for the pair.
\* states[i] is tested only when the outer loop enters i (j = i + 1).
pass_loop(dl, acc, i, j) ==
    IF i > 3 THEN acc
    ELSE IF j = i + 1 /\ ~acc.st[i] THEN pass_loop(dl, acc, i + 1, i + 2)
    ELSE IF j > 3 THEN pass_loop(dl, acc, i + 1, i + 2)
    ELSE IF ~acc.st[j] THEN pass_loop(dl, acc, i, j + 1)
    ELSE pass_loop(dl, pair_compare(acc, i, j, dl[<<i, j>>]), i, j + 1)

\* The nested loops on the windows ws: the delay of a pair is computed when
\* the pair is compared.
pair_loop(ws, acc, i, j) ==
    pass_loop([p \in ChannelPairs |->
                  xcorr(ws[p[2]].fifo, threshold(ws[p[2]]), ws[p[1]].fifo, threshold(ws[p[1]]))],
              acc, i, j)

NoReturn == [some |-> FALSE]

\* The end of parse: ch holds the four channels after the first stage, pass
\* the states and the log the pairwise loop left.
parse_return(ch, st, cfg, pass, state_change) ==
    [windows |-> ArrayOf(LAMBDA c : ch[c].w, 4), states |-> pass.st,
     ret |-> IF state_change
             THEN [some |-> TRUE, keycode |-> current(pass.st, cfg.hit_mapping)]
             ELSE NoReturn,
     panic |-> "",
     evaluated |-> \E c \in Channels : ch[c].evaluated,
     stage1 |-> ArrayOf(LAMBDA c : ch[c].b, 4),
     second_stage |-> \E c \in Channels : ch[c].second_stage,
     state_change |-> state_change, log |-> pass.log]

\* parse cut short by a panic of store() on one of the channels.
parse_panicked(ch, st, panics) ==
    [windows |-> ArrayOf(LAMBDA c : ch[c].w, 4), states |-> st, ret |-> NoReturn,
     panic |-> ch[CHOOSE c \in panics : \A d \in panics : c <= d].panic,
     evaluated |-> FALSE, stage1 |-> st, second_stage |-> FALSE,
     state_change |-> FALSE, log |-> <<>>]

\* The second stage, run when a channel became hit in the first.
second_stage_pass(ws1, st1, second_stage) ==
    IF second_stage
    THEN pair_loop(ws1, [st |-> st1, log |-> <<>>], 0, 1)
    ELSE [st |-> st1, log |-> <<>>]

\* parse after the for_each over the four channels.
parse_after_channels(ch, st, cfg) ==
    IF \E c \in Channels : ch[c].panic # ""
    THEN parse_panicked(ch, st, {c \in Channels : ch[c].panic # ""})
    ELSE parse_return(ch, st, cfg,
                      second_stage_pass(ArrayOf(LAMBDA c : ch[c].w, 4),
                                        ArrayOf(LAMBDA c : ch[c].b, 4),
                                        \E c \in Channels : ch[c].second_stage),
                      \E c \in Channels : ch[c].state_change)

\* Parser::parse(cfg, sample).  sample is the array of the four raw readings in
\* window order; cfg = [sharpness, sensitivity, hit_mapping].
parse(ws, st, cfg, sample) ==
    parse_after_channels(ArrayOf(LAMBDA c : channel_step(ws[c], sample[c], st[c],
                                                         cfg.sharpness, cfg.sensitivity), 4),
                         st, cfg)

\* HitMapping::default(): Z, X, C, V as HID keyboard usages.
DefaultHitMapping == <<29, 27, 6, 25>>

HitMappingOf(m) == [c \in Channels |-> m[c + 1]]

\* Parser::default()
ParserInit ==
    /\ windows = [c \in Channels |-> SampleWindow_new(0)]
    /\ states = [c \in Channels |-> FALSE]
    /\ ret = NoReturn
    /\ last = [panic |-> "", pre |-> [c \in Channels |-> FALSE], stage1 |-> [c \in Channels |-> FALSE],
               evaluated |-> FALSE, second_stage |-> FALSE, state_change |-> FALSE,
               log |-> <<>>, reported |-> [c \in Channels |-> FALSE], calls |-> 0,
               nth |-> 0, total |-> 0]
    /\ reported = [c \in Channels |-> FALSE]

\* The effect of one parse call on the parser variables.  last records what
\* the call did; last.nth counts the calls 1..WINDOW_SIZE cyclically and
\* last.total counts them up to WINDOW_SIZE.
ParseCall(cfg, sample) ==
    \E r \in {parse(windows, states, cfg, sample)} :
        /\ windows' = r.windows
        /\ states' = r.states
        /\ ret' = r.ret
        /\ last' = [panic |-> r.panic, pre |-> states, stage1 |-> r.stage1, evaluated |-> r.evaluated,
                    second_stage |-> r.second_stage, state_change |-> r.state_change,
                    log |-> r.log, reported |-> reported, calls |-> 1,
                    nth |-> IF last.nth = WINDOW_SIZE THEN 1 ELSE last.nth + 1,
                    total |-> IF last.total < WINDOW_SIZE THEN last.total + 1 ELSE last.total]
        /\ reported' = IF r.ret.some THEN r.states ELSE reported


-----------------------------------------------------------------------------
(* PiezoSensorHandler and the sample queue *)

PIEZO_SENSOR_QUEUE_CAPACITY == 32

INTERRUPT_SAMPLER_TIMER_CC == 1000

HALT == <<"HALT">>
TIMER(cc) == <<"TIMER", cc>>

\* Mutant of set_pssm_halt: the timer is left running.
set_pssm_halt_timer_running(h) ==
    [h EXCEPT !.jeocie = FALSE, !.jawden = TRUE, !.awdie = TRUE]

\* PiezoSensorHandler::__set_pssm_halt
set_pssm_halt(h) ==
    [h EXCEPT !.cen = FALSE, !.jeocie = FALSE, !.jawden = TRUE, !.awdie = TRUE]

\* PiezoSensorHandler::__set_pssm_timer
set_pssm_timer(h, cc) ==
    [h EXCEPT !.jawden = FALSE, !.awdie = FALSE, !.jeocie = TRUE, !.ccr1 = cc, !.cen = TRUE]

\* PiezoSensorHandler::set_interrupt_mode
set_interrupt_mode(h, mode) ==
    IF h.mode = mode THEN h
    ELSE [(IF mode = HALT THEN set_pssm_halt(h) ELSE set_pssm_timer(h, mode[2]))
            EXCEPT !.mode = mode]

\* PiezoSensorHandler::new up to the construction of Self: mode HALT, the
\* registers as configured, TIM4 not started.  awd is the AWD flag of ADC1:
\* no conversion has run, so the watchdog has seen nothing.
PiezoSensorHandler_configured ==
    [mode |-> HALT, jeocie |-> TRUE, jawden |-> FALSE, awdie |-> FALSE,
     cen |-> FALSE, ccr1 |-> 0, awd |-> FALSE]

\* PiezoSensorHandler::new, its last three statements.
PiezoSensorHandler_start(s) ==
    set_interrupt_mode(set_pssm_halt(s), TIMER(INTERRUPT_SAMPLER_TIMER_CC))

\* PiezoSensorHandler::new: the registers it leaves and the mode it records.
PiezoSensorHandler_new == PiezoSensorHandler_start(PiezoSensorHandler_configured)

\* Sender::try_send(s) as send() uses it: Err(NoReceiver) without a receiver,
\* Err(Full) when the queue holds its capacity, else the sample is enqueued.
try_send(q, s, alive) ==
    IF ~alive THEN [queue |-> q, err |-> "NoReceiver"]
    ELSE IF Len(q) >= PIEZO_SENSOR_QUEUE_CAPACITY THEN [queue |-> q, err |-> "Full"]
    ELSE [queue |-> Append(q, s), err |-> ""]

\* send() returns early: JEOC is clear.
send_not_ready(h, q, unmasked) ==
    [hw |-> h, queue |-> q, unmasked |-> unmasked, read |-> FALSE, err |-> "NotReady"]

\* send() after try_send(self.read()) returned r: only Err(Full) masks ADC1_2.
send_outcome(h, unmasked, r) ==
    [hw |-> h, queue |-> r.queue,
     unmasked |-> IF r.err = "Full" THEN FALSE ELSE unmasked,
     read |-> TRUE, err |-> r.err]

\* Mutant of send: a full queue does not mask the interrupt.
send_no_backpressure(h, q, unmasked, alive, jeoc, s) ==
    IF ~jeoc THEN send_not_ready(h, q, unmasked)
    ELSE [send_outcome(h, unmasked, try_send(q, s, alive)) EXCEPT !.unmasked = unmasked]

\* Mutant of send: a full queue puts the handler back to HALT.
send_halt_when_full(h, q, unmasked, alive, jeoc, s) ==
    IF ~jeoc THEN send_not_ready(h, q, unmasked)
    ELSE IF alive /\ Len(q) >= PIEZO_SENSOR_QUEUE_CAPACITY
         THEN [send_outcome(h, unmasked, try_send(q, s, alive))
                 EXCEPT !.hw = set_interrupt_mode(h, HALT)]
         ELSE send_outcome(h, unmasked, try_send(q, s, alive))

\* Mutant of send: every error of try_send masks the interrupt.
send_mask_on_any_error(h, q, unmasked, alive, jeoc, s) ==
    IF ~jeoc THEN send_not_ready(h, q, unmasked)
    ELSE IF alive THEN send_outcome(h, unmasked, try_send(q, s, alive))
         ELSE [send_outcome(h, unmasked, try_send(q, s, alive)) EXCEPT !.unmasked = FALSE]

\* Mutant of send: the JEOC flag is not tested.
send_ignores_jeoc(h, q, unmasked, alive, jeoc, s) ==
    send_outcome(h, unmasked, try_send(q, s, alive))

\* PiezoSensorHandler::send.  h is the handler, jeoc the JEOC flag of ADC1,
\* s the sample read() assembles from the data registers; `read` tells
\* whether it was read.  The mode is not consulted.
send(h, q, unmasked, alive, jeoc, s) ==
    IF ~jeoc THEN send_not_ready(h, q, unmasked)
    ELSE send_outcome(h, unmasked, try_send(q, s, alive))

\* Mutant of recv: the newest sample is taken instead of the oldest.
recv_newest(q) == [sample |-> q[Len(q)], queue |-> SubSeq(q, 1, Len(q) - 1)]

\* Receiver::recv() on a non-empty queue.
recv(q) == [sample |-> Head(q), queue |-> Tail(q)]

NoSample == [seq |-> 0]
NoReport == [some |-> FALSE]

\* DrumConfig::default()
DefaultConfig ==
    [sharpness |-> 32, sensitivity |-> 100000, hit_mapping |-> HitMappingOf(DefaultHitMapping)]

-----------------------------------------------------------------------------
(* The serial programmer: the byte format of a configuration *)

BUFF_LEN == 16
ACK == 6

\* The tag bytes of the fields.
LEFTKAT == 16
LEFTDON == 17
RIGHTDON == 18
RIGHTKAT == 19
SENS == 32
SHARP == 33

\* Command as u8.
Command_Unknown == 0
Command_Read == 1
Command_Write == 2
Command_Reset == 255

\* Command::try_from(value)
Command_try_from(value) ==
    IF value \in {Command_Unknown, Command_Read, Command_Write, Command_Reset}
    THEN [ok |-> TRUE, cmd |-> value]
    ELSE [ok |-> FALSE, err |-> value]

\* The channel a key tag configures: hit_mapping is indexed left_kat,
\* left_don, right_don, right_kat as in Parser::current.
KeyChannel(tag) ==
    IF tag = LEFTKAT THEN 0 ELSE IF tag = LEFTDON THEN 1 ELSE IF tag = RIGHTDON THEN 2 ELSE 3

\* The discriminants of usbd_hid's KeyboardUsage (HID keyboard usage page).
KeyboardUsages == (1..164) \cup (176..221) \cup (224..231)

\* KeyboardUsage::Reserved
KeyboardUsage_Reserved == 232

\* KeyboardUsage::from(u8): a byte that is no usage becomes Reserved.
KeyboardUsage_from(b) == IF b \in KeyboardUsages THEN b ELSE KeyboardUsage_Reserved

\* u32::to_be_bytes and u16::to_be_bytes
u32_to_be_bytes(v) == <<v \div 16777216, (v \div 65536) % 256, (v \div 256) % 256, v % 256>>
u16_to_be_bytes(v) == <<v \div 256, v % 256>>

\* u32::from_be_bytes(buff[idx..idx+4]) and u16::from_be_bytes(buff[idx..idx+2])
u32_from_be_bytes(buff, idx) ==
    ((buff[idx] * 256 + buff[idx + 1]) * 256 + buff[idx + 2]) * 256 + buff[idx + 3]
u16_from_be_bytes(buff, idx) == buff[idx] * 256 + buff[idx + 1]

\* The array [0u8; BUFF_LEN] after bytes were copied to its start.
buffer_of(bytes) ==
    [i \in 0..(BUFF_LEN - 1) |-> IF i < Len(bytes) THEN bytes[i + 1] ELSE 0]

\* DrumConfig::serialize: the 16 bytes written to buff.
serialize(c) ==
    buffer_of(<<LEFTKAT, c.hit_mapping[0], RIGHTDON, c.hit_mapping[2],
                LEFTDON, c.hit_mapping[1], RIGHTKAT, c.hit_mapping[3], SENS>>
              \o u32_to_be_bytes(c.sensitivity)
              \o <<SHARP>> \o u16_to_be_bytes(c.sharpness))

\* One turn of the loop of deserialize at idx < n = buff.len(): the match on
\* buff[idx] and the idx += 1 that follows it.  A key field takes the byte
\* after its tag; the sensitivity is read from buff[idx..idx+4] and the
\* sharpness from buff[idx..idx+2], idx being the position of the tag.
deserialize_field(s, buff, n, idx) ==
    LET tag == buff[idx]
    IN  IF tag \in {LEFTKAT, LEFTDON, RIGHTDON, RIGHTKAT}
        THEN IF idx + 1 < n
             THEN [ok |-> TRUE, idx |-> idx + 2,
                   s |-> [s EXCEPT !.hit_mapping[KeyChannel(tag)] = KeyboardUsage_from(buff[idx + 1])]]
             ELSE [ok |-> FALSE, err |-> 0]
        ELSE IF tag = SENS
        THEN IF idx + 4 < n
             THEN [ok |-> TRUE, idx |-> idx + 5,
                   s |-> [s EXCEPT !.sensitivity = u32_from_be_bytes(buff, idx)]]
             ELSE [ok |-> FALSE, err |-> 0]
        ELSE IF tag = SHARP
        THEN IF idx + 2 < n
             THEN [ok |-> TRUE, idx |-> idx + 3,
                   s |-> [s EXCEPT !.sharpness = u16_from_be_bytes(buff, idx)]]
             ELSE [ok |-> FALSE, err |-> 0]
        ELSE [ok |-> FALSE, err |-> tag]

RECURSIVE deserialize_from(_, _, _, _)
\* The loop of deserialize from idx on; s is the clone being filled.
deserialize_from(s, buff, n, idx) ==
    IF idx >= n THEN [ok |-> TRUE, cfg |-> s]
    ELSE LET f == deserialize_field(s, buff, n, idx)
         IN  IF f.ok THEN deserialize_from(f.s, buff, n, f.idx)
             ELSE [ok |-> FALSE, err |-> f.err]

\* DrumConfig::deserialize(&self, buff): Ok(cfg) or Err(byte).
deserialize(self, buff, n) == deserialize_from(self, buff, n, 0)

\* DrumConfig::save(flash): the page is erased and, if the erase took, the
\* configuration is written to it; otherwise an error is logged.
save(cfg, fl, erased) ==
    [saved |-> TRUE, page |-> IF erased THEN cfg ELSE fl.page]

\* What program() leaves when it does nothing to the programmer.
program_idle(cfg, fl, rst) ==
    [cfg |-> cfg, flash |-> fl, reset |-> rst, panic |-> "", out |-> <<>>,
     result |-> [ok |-> TRUE, cfg |-> cfg]]

\* A panic of program() after `out` was sent to the host.
program_panic(cfg, fl, rst, out, msg) ==
    [cfg |-> cfg, flash |-> fl, reset |-> rst, panic |-> msg, out |-> out,
     result |-> [ok |-> TRUE, cfg |-> cfg]]

\* Command::Reset after the acknowledge: FirmwareReset::spawn().expect(..);
\* the spawn fails while an earlier instance has not finished.
program_reset(cfg, fl, rst) ==
    IF rst = "idle"
    THEN [program_idle(cfg, fl, rst) EXCEPT !.reset = "spawned", !.out = <<ACK>>]
    ELSE program_panic(cfg, fl, rst, <<ACK>>, "Reset function cannot be called more than once.")

\* Command::Read after the acknowledge: the configuration is serialised into
\* buff and written to the serial port; a failed write is a todo!().
program_read(cfg, fl, rst, written) ==
    IF written
    THEN [program_idle(cfg, fl, rst) EXCEPT
            !.out = <<ACK>> \o [k \in 1..BUFF_LEN |-> serialize(cfg)[k - 1]]]
    ELSE program_panic(cfg, fl, rst, <<ACK>>, "not yet implemented")

\* What Command::Write does with the result r of deserialize.
program_write_result(cfg, fl, rst, r, erased) ==
    IF r.ok
    THEN [cfg |-> r.cfg, flash |-> save(r.cfg, fl, erased), reset |-> rst, panic |-> "",
          out |-> <<ACK>>, result |-> r]
    ELSE [cfg |-> cfg, flash |-> fl, reset |-> rst, panic |-> "", out |-> <<ACK>>,
          result |-> r]

\* Mutant of program_write: the configuration is saved whatever deserialize
\* returned.
program_write_saves_anyway(cfg, fl, rst, buff, erased) ==
    [program_write_result(cfg, fl, rst, deserialize(cfg, buff, BUFF_LEN), erased)
        EXCEPT !.flash = save(cfg, fl, erased)]

\* Command::Write after the acknowledge: self.cfg.deserialize(&buff) on the
\* whole buffer, the command byte at buff[0] included.
program_write(cfg, fl, rst, buff, erased) ==
    program_write_result(cfg, fl, rst, deserialize(cfg, buff, BUFF_LEN), erased)

\* The match on the command of program(); io holds what the serial port and
\* the flash do: ack (the acknowledge was written), written (the answer to
\* Read was written), erased (the page erase took).
program_command(cfg, fl, rst, buff, cmd, io) ==
    IF cmd = Command_Unknown THEN program_idle(cfg, fl, rst)
    ELSE IF ~io.ack THEN program_panic(cfg, fl, rst, <<>>, "not yet implemented")
    ELSE IF cmd = Command_Reset THEN program_reset(cfg, fl, rst)
    ELSE IF cmd = Command_Read THEN program_read(cfg, fl, rst, io.written)
    ELSE program_write(cfg, fl, rst, buff, io.erased)

\* Programmer::program() once the read returned rsize > 0 bytes in buff.
program_received(cfg, fl, rst, buff, io) ==
    IF Command_try_from(buff[0]).ok
    THEN program_command(cfg, fl, rst, buff, Command_try_from(buff[0]).cmd, io)
    ELSE program_idle(cfg, fl, rst)

\* Programmer::program(); io.read tells what the port had: "data" (bytes in
\* buff), "none" (not ready, nothing read, WouldBlock or Unsupported) or
\* "error" (another UsbError, which panics).
program(cfg, fl, rst, buff, io) ==
    IF io.read = "none" THEN program_idle(cfg, fl, rst)
    ELSE IF io.read = "error" THEN program_panic(cfg, fl, rst, <<>>, "UsbError")
    ELSE program_received(cfg, fl, rst, buff, io)

\* No send() call yet.
NotSent == [called |-> FALSE]

\* No check_deviation call in progress.
DevIdle == [phase |-> "idle"]

\* No program() call yet.
NotProgrammed == [called |-> FALSE]

\* The configuration page before any save() of this boot: what it holds is
\* not read (app::Init takes DrumConfig::default()).
FlashUntouched == [saved |-> FALSE, page |-> "as found"]

\* The variables of the unit specifications at rest.
SideInit ==
    /\ prog_cfg = DefaultConfig
    /\ lock_cfg = DefaultConfig
    /\ dev = DevIdle
    /\ flash = FlashUntouched
    /\ reset = "idle"
    /\ prog = NotProgrammed

\* The state app::Init leaves: the handler constructed, app::Parser spawned
\* and waiting in recv(), ADC1_2 unmasked by RTIC.
PipeInit ==
    /\ hw = PiezoSensorHandler_new
    /\ queue = <<>>
    /\ adc_unmasked = TRUE
    /\ receiver_alive = TRUE
    /\ pc = "recv"
    /\ held = NoSample
    /\ sender = NoReport
    /\ produced = 0
    /\ accepted = <<>>
    /\ parsed = <<>>
    /\ recv_since_disable = TRUE
    /\ sent = NotSent

\* SpecXcorr is idle in the other specifications.
XcIdle == [phase |-> "idle"]

-----------------------------------------------------------------------------
(* SpecWindow: a SampleWindow under arbitrary store() calls *)

FILLER == 0

InitWindow ==
    /\ win = SampleWindow_new(FILLER)
    /\ stored = <<>>
    /\ panicked = ""
    /\ ParserInit
    /\ wave = [c \in Channels |-> "quiet"]
    /\ xc = XcIdle
    /\ PipeInit
    /\ SideInit

\* One store(v) call.
Store ==
    /\ panicked = ""
    /\ Len(stored) < MaxStores
    /\ \E v \in StoreValues :
         \E o \in {store_outcome(win, v)} :
             /\ win' = o.w
             /\ panicked' = o.panic
             /\ stored' = Append(stored, v)
    /\ UNCHANGED <<sideVars, parserVars, wave, xc, pipeVars>>

NextWindow == Store

SpecWindow == InitWindow /\ [][NextWindow]_vars

-----------------------------------------------------------------------------
(* SpecDeviation: check_deviation on the statistics of one window *)

\* Window statistics are centred 12-bit readings.
SampleMin == 0 - MID_RANGE
SampleMax == MID_RANGE - 1

\* Medians, and distances of the two extremes from the median.
DevMedians == {SampleMin, -7, 0, 100}
DevSpreads == {0, 1, 3, 10, 16, 32, 40, 64, 655, 656, 4095}

\* sharpness (u16) and sensitivity as check_deviation receives it (u8).
DevScales == {0, 1, 3, 10, 32, 64, 65535}
DevPercents == {0, 1, 10, 30, 33, 34, 50, 100, 255}

InitDeviation ==
    /\ win = SampleWindow_new(FILLER)
    /\ stored = <<>>
    /\ panicked = ""
    /\ ParserInit
    /\ wave = [c \in Channels |-> "quiet"]
    /\ xc = XcIdle
    /\ PipeInit
    /\ prog_cfg = DefaultConfig
    /\ lock_cfg = DefaultConfig
    /\ flash = FlashUntouched
    /\ reset = "idle"
    /\ prog = NotProgrammed
    /\ \E median \in DevMedians, below, above \in DevSpreads,
          scale \in DevScales, percent \in DevPercents :
         /\ median - below >= SampleMin
         /\ median + above <= SampleMax
         /\ dev = [phase |-> "input", median |-> median, min_val |-> median - below,
                   max_val |-> median + above, scale |-> scale, percent |-> percent]

\* One check_deviation call.
CheckDeviation ==
    /\ dev.phase = "input"
    /\ dev' = [phase |-> "done", median |-> dev.median, min_val |-> dev.min_val,
               max_val |-> dev.max_val, scale |-> dev.scale, percent |-> dev.percent,
               result |-> check_deviation(dev.median, dev.min_val, dev.max_val,
                                          dev.scale, dev.percent)]
    /\ UNCHANGED <<windowVars, parserVars, panicked, wave, xc, pipeVars, prog_cfg, lock_cfg,
                   flash, reset, prog>>

NextDeviation == CheckDeviation

SpecDeviation == InitDeviation /\ [][NextDeviation]_vars

-----------------------------------------------------------------------------
(* SpecParser: Parser::parse fed with four channels of waveforms *)

\* Raw amplitude of a strike above the signal midpoint.
PulseAmp == 40

\* The waveform a channel plays during one window period: silence, or one
\* pulse at the given sample of the period.
Waves == {"quiet", "early", "late"}

PulseAt(wv) == IF wv = "early" THEN 1 ELSE 2

\* The raw reading of a channel playing wv at sample t of the period.
RawSample(wv, t) ==
    IF wv # "quiet" /\ t = PulseAt(wv) THEN MID_RANGE + PulseAmp ELSE MID_RANGE

\* Configurations handed to parse: the default sharpness with a sensitivity
\* the pulse exceeds, and one it does not exceed.
Configs ==
    { [sharpness |-> 32, sensitivity |-> 100, hit_mapping |-> HitMappingOf(DefaultHitMapping)],
      [sharpness |-> 32, sensitivity |-> 200, hit_mapping |-> HitMappingOf(DefaultHitMapping)] }

InitParser ==
    /\ win = SampleWindow_new(FILLER)
    /\ stored = <<>>
    /\ panicked = ""
    /\ ParserInit
    /\ wave = [c \in Channels |-> "quiet"]
    /\ xc = XcIdle
    /\ PipeInit
    /\ SideInit

\* One parse call.  The waveforms of a period are chosen when it starts.
Parse ==
    /\ panicked = ""
    /\ LET t == windows[0].index_fifo
       IN  \E wv \in (IF t = 0 THEN [Channels -> Waves] ELSE {wave}) :
           \E cfg \in Configs :
             /\ wave' = wv
             /\ ParseCall(cfg, [c \in Channels |-> RawSample(wv[c], t)])
             /\ panicked' = last'.panic
    /\ UNCHANGED <<sideVars, windowVars, xc, pipeVars>>

NextParser == Parse

SpecParser == InitParser /\ [][NextParser]_vars

-----------------------------------------------------------------------------
(* SpecStuck: Parser::parse on channels whose reading stays at one level    *)
(* for whole window periods, under configurations with zero sharpness and   *)
(* zero sensitivity                                                         *)

\* Waveforms of a window period: silence at the midpoint, one pulse, or a
\* reading held above or below the midpoint for the whole period.
StuckWaves == {"quiet", "early", "high", "low"}

\* The raw reading of a channel playing wv at sample t of the period.
StuckSample(wv, t) ==
    IF wv = "high" THEN MID_RANGE + PulseAmp
    ELSE IF wv = "low" THEN 0
    ELSE RawSample(wv, t)

\* Waveforms of the four channels: two channels take every waveform, the
\* third is silent or struck, the fourth is silent.
StuckWaveArrays ==
    {wv \in [Channels -> StuckWaves] :
        wv[2] \in {"quiet", "early"} /\ wv[3] = "quiet"}

StuckConfigs ==
    { [sharpness |-> 0, sensitivity |-> 0, hit_mapping |-> HitMappingOf(DefaultHitMapping)],
      [sharpness |-> 0, sensitivity |-> 100, hit_mapping |-> HitMappingOf(DefaultHitMapping)],
      [sharpness |-> 1, sensitivity |-> 0, hit_mapping |-> HitMappingOf(DefaultHitMapping)],
      [sharpness |-> 32, sensitivity |-> 100, hit_mapping |-> HitMappingOf(DefaultHitMapping)] }

InitStuck ==
    /\ win = SampleWindow_new(FILLER)
    /\ stored = <<>>
    /\ panicked = ""
    /\ ParserInit
    /\ wave = [c \in Channels |-> "quiet"]
    /\ xc = XcIdle
    /\ PipeInit
    /\ SideInit

\* One parse call.  The waveforms of a period are chosen when it starts.
ParseStuck ==
    /\ panicked = ""
    /\ \E t \in {windows[0].index_fifo} :
       \E wv \in (IF t = 0 THEN StuckWaveArrays ELSE {wave}) :
       \E cfg \in StuckConfigs :
         /\ wave' = wv
         /\ ParseCall(cfg, [c \in Channels |-> StuckSample(wv[c], t)])
         /\ panicked' = last'.panic
    /\ UNCHANGED <<sideVars, windowVars, xc, pipeVars>>

NextStuck == ParseStuck

SpecStuck == InitStuck /\ [][NextStuck]_vars

-----------------------------------------------------------------------------
(* SpecXcorr: one iteration of the pairwise loop on two windows that carry *)
(* the same strike, the second shifted in time                             *)

\* Length of the two signals.
XLen == 32

\* Largest shift between the two signals, in samples.
MaxShift == 12

\* Centred samples of one strike.
BurstShape == <<40, -20, 10>>

\* Samples at which the reference strike starts.
BurstStarts == {13, 14, 15}

\* A silent window with one strike starting at sample pos.
Burst(pos) ==
    ArrayOf(LAMBDA n : LET k == (n - pos + XLen) % XLen
                       IN  IF k < Len(BurstShape) THEN BurstShape[k + 1] ELSE 0, XLen)

\* The median SampleWindow::threshold yields for a window holding the array a:
\* the element of 0-based rank N/2.
array_median(a) ==
    LET N == Cardinality(DOMAIN a)
    IN  CHOOSE v \in {a[k] : k \in DOMAIN a} :
            /\ Cardinality({k \in DOMAIN a : a[k] < v}) <= N \div 2
            /\ Cardinality({k \in DOMAIN a : a[k] <= v}) > N \div 2

InitXcorr ==
    /\ win = SampleWindow_new(FILLER)
    /\ stored = <<>>
    /\ panicked = ""
    /\ ParserInit
    /\ wave = [c \in Channels |-> "quiet"]
    /\ xc \in { [phase |-> "input", i |-> i, j |-> j, shift |-> d, pos |-> p] :
                  i \in Channels, j \in Channels, d \in (-MaxShift)..MaxShift,
                  p \in BurstStarts }
    /\ xc.i < xc.j
    /\ PipeInit
    /\ SideInit

\* The body of the inner loop for channels i < j both flagged hit: channel i
\* carries the strike at pos, channel j the same strike `shift` samples later.
Correlate ==
    /\ xc.phase = "input"
    /\ LET reference == Burst(xc.pos)
           occurance == Burst((xc.pos + xc.shift + XLen) % XLen)
           before    == [c \in Channels |-> c \in {xc.i, xc.j}]
       IN  \E delay \in {xcorr(occurance, array_median(occurance),
                               reference, array_median(reference))} :
             xc' = [phase |-> "done", i |-> xc.i, j |-> xc.j, shift |-> xc.shift,
                    pos |-> xc.pos, delay |-> delay,
                    st |-> delay_match(before, xc.i, xc.j, delay)]
    /\ UNCHANGED <<sideVars, windowVars, parserVars, panicked, wave, pipeVars>>

NextXcorr == Correlate

SpecXcorr == InitXcorr /\ [][NextXcorr]_vars

-----------------------------------------------------------------------------
(* SpecPass: the pairwise loop of the second stage under every outcome of   *)
(* the pair comparisons                                                     *)

\* Delays a comparison may return: one of each arm of the match, and zero.
PassDelays == {-1, 0, 1}

InitPass ==
    /\ win = SampleWindow_new(FILLER)
    /\ stored = <<>>
    /\ panicked = ""
    /\ ParserInit
    /\ wave = [c \in Channels |-> "quiet"]
    /\ xc \in {[phase |-> "input", st |-> st, dl |-> dl] :
                  st \in [Channels -> BOOLEAN], dl \in [ChannelPairs -> PassDelays]}
    /\ \E c \in Channels : xc.st[c]
    /\ PipeInit
    /\ SideInit

\* The second stage on the states the first stage left (at least one channel
\* flagged hit, or second_stage would not be set).
Pass ==
    /\ xc.phase = "input"
    /\ \E r \in {pass_loop(xc.dl, [st |-> xc.st, log |-> <<>>], 0, 1)} :
         xc' = [phase |-> "done", st |-> xc.st, dl |-> xc.dl, out |-> r.st, log |-> r.log]
    /\ UNCHANGED <<sideVars, windowVars, parserVars, panicked, wave, pipeVars>>

NextPass == Pass

SpecPass == InitPass /\ [][NextPass]_vars

-----------------------------------------------------------------------------
(* SpecProduct: the i16 arithmetic of xcorr, the DC removal and the product  *)
(* z1 * z2.conj(), on the two bins of the spectrum whose twiddle factors are *)
(* +1 and -1: bin 0 and bin N/2.  Both are real for a real signal.  The      *)
(* forward transform is ForwardScaled: the sum divided by N.                 *)

I16_MIN == -32768
I16_MAX == 32767

fits_i16(v) == I16_MIN <= v /\ v <= I16_MAX

\* v reduced to i16 as a wrapping operation leaves it.
wrap_i16(v) == ((v - I16_MIN) % 65536) + I16_MIN

\* i16 arithmetic without checked_/saturating_/wrapping_: the build decides
\* what an overflow does.  With overflow checks the operation panics, without
\* them the result wraps.
i16_outcomes(v) ==
    IF fits_i16(v) THEN {[value |-> v, overflow |-> FALSE, panic |-> ""]}
    ELSE {[value |-> v, overflow |-> TRUE, panic |-> "arithmetic overflow"],
          [value |-> wrap_i16(v), overflow |-> TRUE, panic |-> ""]}

\* The largest magnitude among buf[i].re = signal[i] - median.
dc_removed_extreme(sig, median) ==
    CHOOSE v \in {Abs(sig[i] - median) : i \in DOMAIN sig} :
        \A i \in DOMAIN sig : Abs(sig[i] - median) <= v

\* Bin k of the scaled forward transform of sig - median, for k = 0 and
\* k = N/2: the twiddle factor of sample n is 1 or (-1)^n.
spectrum_bin(sig, median, k) ==
    SumTo(LAMBDA n : (IF k # 0 /\ n % 2 = 1 THEN -1 ELSE 1) * (sig[n] - median),
          Cardinality(DOMAIN sig) - 1) \div Cardinality(DOMAIN sig)

\* Lengths of the low part of a step signal.
StepLens == 0..XLen

\* The two levels of a step signal.
StepLevels == {<<SampleMin, SampleMax>>, <<SampleMax, SampleMin>>, <<0, PulseAmp>>}

\* A window whose first m samples are at lv[1] and the others at lv[2].
Step(m, lv) == ArrayOf(LAMBDA n : IF n < m THEN lv[1] ELSE lv[2], XLen)

InitProduct ==
    /\ win = SampleWindow_new(FILLER)
    /\ stored = <<>>
    /\ panicked = ""
    /\ ParserInit
    /\ wave = [c \in Channels |-> "quiet"]
    /\ xc \in {[phase |-> "input", m |-> m, lv |-> lv, bin |-> k] :
                  m \in StepLens, lv \in StepLevels, k \in {0, XLen \div 2}}
    /\ PipeInit
    /\ SideInit

\* xcorr lines 22 to 35 on two channels that both hold the window
\* Step(m, lv), followed at bin k: z1 and z2 are the bins of the two spectra.
Multiply ==
    /\ xc.phase = "input"
    /\ panicked = ""
    /\ \E sig \in {Step(xc.m, xc.lv)} :
       \E z1 \in {spectrum_bin(sig, array_median(sig), xc.bin)},
          z2 \in {spectrum_bin(sig, array_median(sig), xc.bin)},
          sub \in i16_outcomes(dc_removed_extreme(sig, array_median(sig))) :
       \E mul \in i16_outcomes(z1 * z2) :
         /\ xc' = [phase |-> "done", m |-> xc.m, lv |-> xc.lv, bin |-> xc.bin,
                   z1 |-> z1, z2 |-> z2, sub |-> sub, mul |-> mul]
         /\ panicked' = IF sub.panic # "" THEN sub.panic ELSE mul.panic
    /\ UNCHANGED <<sideVars, windowVars, parserVars, wave, pipeVars>>

NextProduct == Multiply

SpecProduct == InitProduct /\ [][NextProduct]_vars

-----------------------------------------------------------------------------
(* SpecSelf: xcorr of a signal with an exact copy of itself *)

\* Values of the constant signals.
ConstantLevels == {SampleMin, -100, -1, 0, 1, 100, SampleMax}

\* Periods of the pulse trains.
TrainPeriods == {2, 4, 8, 16}

\* The signals: a strike at sample a, the constant a, or a pulse every a
\* samples starting at sample b.
SelfSignals ==
    {[kind |-> "burst", a |-> p, b |-> 0] : p \in 0..(XLen - 1)}
    \cup {[kind |-> "constant", a |-> v, b |-> 0] : v \in ConstantLevels}
    \cup {g \in {[kind |-> "train", a |-> q, b |-> ph] : q \in TrainPeriods, ph \in 0..3} : g.b < g.a}

SelfSignal(g) ==
    IF g.kind = "burst" THEN Burst(g.a)
    ELSE IF g.kind = "constant" THEN ArrayOf(LAMBDA n : g.a, XLen)
    ELSE ArrayOf(LAMBDA n : IF n % g.a = g.b THEN PulseAmp ELSE 0, XLen)

InitSelf ==
    /\ win = SampleWindow_new(FILLER)
    /\ stored = <<>>
    /\ panicked = ""
    /\ ParserInit
    /\ wave = [c \in Channels |-> "quiet"]
    /\ xc \in {[phase |-> "input", signal |-> g] : g \in SelfSignals}
    /\ PipeInit
    /\ SideInit

\* xcorr(&w.fifo, w.threshold(), &w.fifo, w.threshold()) on one window.
SelfCorrelate ==
    /\ xc.phase = "input"
    /\ \E sig \in {SelfSignal(xc.signal)} :
       \E delay \in {xcorr(sig, array_median(sig), sig, array_median(sig))} :
         xc' = [phase |-> "done", signal |-> xc.signal, delay |-> delay,
                energy |-> SumTo(LAMBDA n : (sig[n] - array_median(sig)) ^ 2, XLen - 1)]
    /\ UNCHANGED <<sideVars, windowVars, parserVars, panicked, wave, pipeVars>>

NextSelf == SelfCorrelate

SpecSelf == InitSelf /\ [][NextSelf]_vars

-----------------------------------------------------------------------------
(* SpecPipe: the ADC1_2 handler (priority 2) against app::Parser            *)
(* (priority 0) and app::UsbHidSender (priority 1).  A task runs only while *)
(* no task of higher priority is ready; a lock on usb_dev (ceiling 2) runs  *)
(* to its end without preemption, so each lock body is one step.            *)

\* Number of samples the ADC produces.
MaxSamples == 35

\* The four raw readings of a silent drum.
QuietData == [c \in Channels |-> MID_RANGE]

\* The handler as an ADC1_2 interrupt finds it: the hardware raises AWD only
\* while the watchdog guards the injected channels.
watchdog_outcomes(h) ==
    IF h.jawden THEN {[h EXCEPT !.awd = b] : b \in BOOLEAN} ELSE {h}

\* app::SensorHandling: piezo_handler.send().
SensorHandling ==
    /\ panicked = ""
    /\ adc_unmasked
    /\ produced < MaxSamples
    /\ \E jeoc \in BOOLEAN, h \in watchdog_outcomes(hw) :
       \E r \in {send(h, queue, adc_unmasked, receiver_alive, jeoc,
                      [seq |-> produced + 1, data |-> QuietData])} :
         /\ hw' = r.hw
         /\ queue' = r.queue
         /\ sent' = [called |-> TRUE, jeoc |-> jeoc, read |-> r.read, err |-> r.err,
                     hw |-> h, queue |-> queue, unmasked |-> adc_unmasked]
         /\ adc_unmasked' = r.unmasked
         /\ produced' = IF r.read THEN produced + 1 ELSE produced
         /\ accepted' = IF r.read /\ r.err = "" THEN Append(accepted, produced + 1)
                        ELSE accepted
         /\ recv_since_disable' = IF r.unmasked THEN recv_since_disable ELSE FALSE
    /\ UNCHANGED <<sideVars, windowVars, parserVars, panicked, wave, xc,
                   receiver_alive, pc, held, sender, parsed>>

\* Mutant of priority: app::Parser and app::UsbHidSender at one priority.
priority_parser_equal ==
    [Parser |-> 1, UsbHidSender |-> 1, SensorHandling |-> 2, UsbPollTx |-> 2, UsbPollRx |-> 2]

\* Mutant of priority: app::Parser above app::UsbHidSender.
priority_parser_above ==
    [Parser |-> 1, UsbHidSender |-> 0, SensorHandling |-> 2, UsbPollTx |-> 2, UsbPollRx |-> 2]

\* The priorities of the #[task] attributes; a software task without one has 0.
priority ==
    [Parser |-> 0, UsbHidSender |-> 1, SensorHandling |-> 2, UsbPollTx |-> 2, UsbPollRx |-> 2]

\* app::Parser is suspended in an await that has not completed.
parser_awaits == pc = "delay" \/ (pc = "recv" /\ queue = <<>>)

\* RTIC dispatch: a software task runs unless a task of higher priority is
\* pending or running; a task of lower priority gets the processor only while
\* the higher one is suspended in an await.
parser_may_run ==
    \/ sender = NoReport
    \/ priority.Parser >= priority.UsbHidSender

sender_may_run ==
    /\ sender # NoReport
    /\ priority.UsbHidSender > priority.Parser \/ parser_awaits

\* app::Parser: r.recv().await returns the oldest sample.
ParserRecv ==
    /\ panicked = ""
    /\ parser_may_run
    /\ pc = "recv"
    /\ queue # <<>>
    /\ \E r \in {recv(queue)} :
         /\ held' = r.sample
         /\ queue' = r.queue
    /\ pc' = "lock"
    /\ recv_since_disable' = TRUE
    /\ UNCHANGED <<sent, sideVars, windowVars, parserVars, panicked, wave, xc,
                   hw, adc_unmasked, receiver_alive, sender, produced, accepted, parsed>>

\* app::Parser: the usb_dev lock: parse the held, spawn UsbHidSender with
\* the report if there is one.
ParserLock ==
    /\ panicked = ""
    /\ parser_may_run
    /\ pc = "lock"
    /\ ParseCall(DefaultConfig, held.data)
    /\ parsed' = Append(parsed, held.seq)
    /\ held' = NoSample
    /\ sender' = IF last'.panic = "" /\ ret'.some /\ sender = NoReport THEN ret' ELSE sender
    /\ panicked' = IF last'.panic = "" /\ ret'.some /\ sender # NoReport
                   THEN "Higher priority task spawn condition."
                   ELSE last'.panic
    /\ pc' = "enable"
    /\ UNCHANGED <<sent, sideVars, windowVars, wave, xc, hw, queue, adc_unmasked, receiver_alive,
                   produced, accepted, recv_since_disable>>

\* app::Parser: int_enable!(ADC1_2).
ParserEnable ==
    /\ panicked = ""
    /\ parser_may_run
    /\ pc = "enable"
    /\ adc_unmasked' = TRUE
    /\ pc' = "delay"
    /\ UNCHANGED <<sent, sideVars, windowVars, parserVars, panicked, wave, xc, hw, queue,
                   receiver_alive, held, sender, produced, accepted, parsed,
                   recv_since_disable>>

\* app::Parser: Systick::delay(500.nanos()).await has elapsed.
ParserDelay ==
    /\ panicked = ""
    /\ parser_may_run
    /\ pc = "delay"
    /\ pc' = "recv"
    /\ UNCHANGED <<sent, sideVars, windowVars, parserVars, panicked, wave, xc, hw, queue, adc_unmasked,
                   receiver_alive, held, sender, produced, accepted, parsed,
                   recv_since_disable>>

\* app::UsbHidSender: push the report to the HID endpoint and finish.
UsbHidSender ==
    /\ panicked = ""
    /\ sender_may_run
    /\ sender' = NoReport
    /\ UNCHANGED <<sent, sideVars, windowVars, parserVars, panicked, wave, xc, hw, queue, adc_unmasked,
                   receiver_alive, pc, held, produced, accepted, parsed,
                   recv_since_disable>>

InitPipe ==
    /\ win = SampleWindow_new(FILLER)
    /\ stored = <<>>
    /\ panicked = ""
    /\ ParserInit
    /\ wave = [c \in Channels |-> "quiet"]
    /\ xc = XcIdle
    /\ PipeInit
    /\ SideInit

ParserTask == ParserRecv \/ ParserLock \/ ParserEnable \/ ParserDelay

NextPipe == SensorHandling \/ ParserTask \/ UsbHidSender

SpecPipe == InitPipe /\ [][NextPipe]_vars

\* The lock step as app::Parser's position shows it.  Parser::parse always
\* returns or panics, so the step is possible whenever the task is at the lock.
ParserLockCompletes ==
    /\ panicked = ""
    /\ parser_may_run
    /\ pc = "lock"
    /\ pc' = "enable"

\* The scheduler runs a ready task once nothing of higher priority is ready.
FairSpecPipe ==
    /\ SpecPipe
    /\ WF_vars(ParserRecv \/ ParserEnable \/ ParserDelay)
    /\ WF_pc(ParserLockCompletes)
    /\ WF_vars(UsbHidSender)

-----------------------------------------------------------------------------
(* SpecStartup: SpecPipe from the point of PiezoSensorHandler::new where the *)
(* handler has been configured and Self is about to be built.  app::Init     *)
(* runs with interrupts disabled, so nothing else runs before it returns.    *)

InitStartup ==
    /\ win = SampleWindow_new(FILLER)
    /\ stored = <<>>
    /\ panicked = ""
    /\ ParserInit
    /\ wave = [c \in Channels |-> "quiet"]
    /\ xc = XcIdle
    /\ hw = PiezoSensorHandler_configured
    /\ queue = <<>>
    /\ adc_unmasked = FALSE
    /\ receiver_alive = TRUE
    /\ pc = "init"
    /\ held = NoSample
    /\ sender = NoReport
    /\ produced = 0
    /\ accepted = <<>>
    /\ parsed = <<>>
    /\ recv_since_disable = TRUE
    /\ sent = NotSent
    /\ SideInit

\* app::Init from PiezoSensorHandler::new's last statements to its return:
\* the handler is started, app::Parser is spawned, RTIC unmasks ADC1_2.
AppInit ==
    /\ pc = "init"
    /\ hw' = PiezoSensorHandler_start(hw)
    /\ adc_unmasked' = TRUE
    /\ pc' = "recv"
    /\ UNCHANGED <<sent, sideVars, windowVars, parserVars, panicked, wave, xc, queue,
                   receiver_alive, held, sender, produced, accepted, parsed,
                   recv_since_disable>>

NextStartup == AppInit \/ NextPipe

SpecStartup == InitStartup /\ [][NextStartup]_vars

-----------------------------------------------------------------------------
(* SpecProgram: Programmer::program in the USB interrupts (priority 2)       *)
(* against app::FirmwareReset (priority 0), fed with commands of the host    *)

\* Fields a host sends after Command::Write, as <<tag, value>>.
OtherKeys == <<<<LEFTKAT, 7>>, <<LEFTDON, 9>>, <<RIGHTDON, 13>>, <<RIGHTKAT, 14>>>>

WriteFields ==
    { <<<<LEFTKAT, 7>>>>,
      OtherKeys,
      <<<<SENS, 50>>>>,
      <<<<SHARP, 64>>>>,
      <<<<SENS, 50>>, <<SHARP, 64>>>>,
      OtherKeys \o <<<<SENS, 50>>>>,
      OtherKeys \o <<<<SENS, 50>>, <<LEFTKAT, 7>>>>,
      <<<<SHARP, 64>>, <<SHARP, 32>>, <<SHARP, 16>>, <<SHARP, 8>>, <<SHARP, 64>>>> }

\* Bytes after the last whole field: none, an unknown tag, or a sharpness
\* field cut after its first byte.
WriteTails == {<<>>, <<153>>, <<SHARP, 0>>}

\* The bytes of one field as the host utility sends them: the tag, then the
\* value in big-endian order.
field_bytes(f) ==
    IF f[1] = SENS THEN <<SENS>> \o u32_to_be_bytes(f[2])
    ELSE IF f[1] = SHARP THEN <<SHARP>> \o u16_to_be_bytes(f[2])
    ELSE <<f[1], f[2]>>

RECURSIVE fields_bytes(_)
fields_bytes(fs) == IF fs = <<>> THEN <<>> ELSE field_bytes(Head(fs)) \o fields_bytes(Tail(fs))

\* What the serial port hands to one program() call: a command byte and, for
\* Command::Write, fields and a tail that fit the buffer.
Received ==
    {[cmd |-> c, fields |-> <<>>, tail |-> <<>>] :
        c \in {Command_Unknown, Command_Read, Command_Reset, 7}}
    \cup {rx \in [cmd : {Command_Write}, fields : WriteFields, tail : WriteTails] :
            1 + Len(fields_bytes(rx.fields)) + Len(rx.tail) <= BUFF_LEN}

received_bytes(rx) == <<rx.cmd>> \o fields_bytes(rx.fields) \o rx.tail

\* What the serial port and the flash do during one call.
ProgramIO ==
    [read : {"data", "none", "error"}, ack : BOOLEAN, written : BOOLEAN, erased : BOOLEAN]

InitProgram ==
    /\ win = SampleWindow_new(FILLER)
    /\ stored = <<>>
    /\ panicked = ""
    /\ ParserInit
    /\ wave = [c \in Channels |-> "quiet"]
    /\ xc = XcIdle
    /\ PipeInit
    /\ SideInit

\* The effect of one program() call on the programmer variables; prog
\* records what the call found and did.
ProgramCall(rx, io) ==
    \E r \in {program(prog_cfg, flash, reset, buffer_of(received_bytes(rx)), io)} :
        /\ prog_cfg' = r.cfg
        /\ flash' = r.flash
        /\ reset' = r.reset
        /\ panicked' = r.panic
        /\ prog' = [called |-> TRUE, rx |-> rx, io |-> io, pc |-> pc,
                    cfg |-> prog_cfg, flash |-> flash, reset |-> reset,
                    out |-> r.out, result |-> r.result]

\* app::UsbPollTx / app::UsbPollRx: __usb_poll runs program().
Program ==
    /\ panicked = ""
    /\ \E rx \in Received, io \in ProgramIO : ProgramCall(rx, io)
    /\ UNCHANGED <<lock_cfg, dev, windowVars, parserVars, wave, xc, pipeVars>>

\* app::FirmwareReset starts: reset_pend is set, the task awaits its delay.
FirmwareResetStart ==
    /\ panicked = ""
    /\ reset = "spawned"
    /\ reset' = "delay"
    /\ UNCHANGED <<prog_cfg, lock_cfg, dev, flash, prog, windowVars, parserVars,
                   panicked, wave, xc, pipeVars>>

\* app::FirmwareReset: the delay is over, SCB::sys_reset() restarts the
\* firmware, which boots with DrumConfig::default().
FirmwareResetRestart ==
    /\ panicked = ""
    /\ reset = "delay"
    /\ reset' = "idle"
    /\ prog_cfg' = DefaultConfig
    /\ flash' = [flash EXCEPT !.saved = FALSE]
    /\ prog' = NotProgrammed
    /\ UNCHANGED <<lock_cfg, dev, windowVars, parserVars, panicked, wave, xc, pipeVars>>

NextProgram == Program \/ FirmwareResetStart \/ FirmwareResetRestart

SpecProgram == InitProgram /\ [][NextProgram]_vars

-----------------------------------------------------------------------------
(* SpecConfig: app::Parser's usb_dev lock against the serial programmer,    *)
(* which runs in the USB interrupts and owns dev.programmer.cfg.  The       *)
(* parse call is cut in two: sharpness and sensitivity are read when it     *)
(* starts, the key mapping when it builds the report.                       *)

\* Mutant of usb_dev_ceiling: the lock does not raise the priority.
usb_dev_ceiling_parser_only == priority.Parser

\* The ceiling RTIC computes for usb_dev: the highest priority among the
\* tasks that name it in `shared`.
usb_dev_ceiling ==
    CHOOSE p \in {priority[t] : t \in {"Parser", "UsbHidSender", "UsbPollTx", "UsbPollRx"}} :
        \A t \in {"Parser", "UsbHidSender", "UsbPollTx", "UsbPollRx"} : priority[t] <= p

\* Waveforms of SpecConfig.
ConfigWaves == {"quiet", "early"}

\* A key mapping other than the default one.
OtherHitMapping == <<7, 9, 13, 14>>

InitConfig ==
    /\ win = SampleWindow_new(FILLER)
    /\ stored = <<>>
    /\ panicked = ""
    /\ ParserInit
    /\ wave = [c \in Channels |-> "quiet"]
    /\ xc = XcIdle
    /\ hw = PiezoSensorHandler_new
    /\ queue = <<>>
    /\ adc_unmasked = TRUE
    /\ receiver_alive = TRUE
    /\ pc = "lock"
    /\ held = NoSample
    /\ sender = NoReport
    /\ produced = 0
    /\ accepted = <<>>
    /\ parsed = <<>>
    /\ recv_since_disable = TRUE
    /\ sent = NotSent
    /\ SideInit

\* app::Parser enters the usb_dev lock and parse() reads sharpness and
\* sensitivity from &dev.programmer.cfg.
ConfigLock ==
    /\ panicked = ""
    /\ pc = "lock"
    /\ lock_cfg' = prog_cfg
    /\ pc' = "parse"
    /\ UNCHANGED <<prog_cfg, dev, flash, reset, prog, windowVars, parserVars, panicked, wave, xc, sent, hw, queue,
                   adc_unmasked, receiver_alive, held, sender, produced, accepted, parsed,
                   recv_since_disable>>

\* The rest of the parse call: the channels are stepped with the values read
\* at its start, the report is built from cfg.hit_mapping as it is now; the
\* lock is released.
ConfigParse ==
    /\ panicked = ""
    /\ pc = "parse"
    /\ LET t == windows[0].index_fifo
       IN  \E wv \in (IF t = 0 THEN [Channels -> ConfigWaves] ELSE {wave}) :
             /\ wave' = wv
             /\ ParseCall([sharpness |-> lock_cfg.sharpness,
                           sensitivity |-> lock_cfg.sensitivity,
                           hit_mapping |-> prog_cfg.hit_mapping],
                          [c \in Channels |-> RawSample(wv[c], t)])
             /\ panicked' = last'.panic
    /\ pc' = "lock"
    /\ UNCHANGED <<sideVars, windowVars, xc, sent, hw, queue, adc_unmasked, receiver_alive,
                   held, sender, produced, accepted, parsed, recv_since_disable>>

\* app::UsbPollRx / app::UsbPollTx: program() receives Command::Write and
\* acknowledges it.  The interrupt is held off while a task inside the
\* usb_dev lock runs at a ceiling not below its priority.
ConfigWrite ==
    /\ panicked = ""
    /\ pc = "parse" => priority.UsbPollRx > usb_dev_ceiling
    /\ \E rx \in {r \in Received : r.cmd = Command_Write},
          io \in {i \in ProgramIO : i.read = "data" /\ i.ack /\ i.written} :
         ProgramCall(rx, io)
    /\ UNCHANGED <<lock_cfg, dev, windowVars, parserVars, wave, xc, pipeVars>>

NextConfig == ConfigLock \/ ConfigParse \/ ConfigWrite

SpecConfig == InitConfig /\ [][NextConfig]_vars

-----------------------------------------------------------------------------
(* SpecSerial: DrumConfig::deserialize applied to the buffer that            *)
(* DrumConfig::serialize wrote                                               *)

\* Key mappings, sensitivities (u32) and sharpnesses (u16) serialised.
SerialHitMappings == {DefaultHitMapping, OtherHitMapping}
SerialSensitivities == {0, 100, 100000, 538976288, 2147483647}
SerialSharpnesses == {0, 32, 64, 8481, 65535}

SerialConfigs ==
    {[sharpness |-> sh, sensitivity |-> se, hit_mapping |-> HitMappingOf(hm)] :
        sh \in SerialSharpnesses, se \in SerialSensitivities, hm \in SerialHitMappings}

InitSerial ==
    /\ win = SampleWindow_new(FILLER)
    /\ stored = <<>>
    /\ panicked = ""
    /\ ParserInit
    /\ wave = [c \in Channels |-> "quiet"]
    /\ xc = XcIdle
    /\ PipeInit
    /\ prog_cfg \in SerialConfigs
    /\ lock_cfg = DefaultConfig
    /\ dev = DevIdle
    /\ flash = FlashUntouched
    /\ reset = "idle"
    /\ prog = NotProgrammed

\* c.serialize(&mut buff) and then self.deserialize(&buff), self being c or
\* the default configuration.
RoundTrip ==
    /\ ~prog.called
    /\ \E self \in {prog_cfg, DefaultConfig} :
       \E buff \in {serialize(prog_cfg)} :
         prog' = [called |-> TRUE, self |-> self, buff |-> buff,
                  result |-> deserialize(self, buff, BUFF_LEN)]
    /\ UNCHANGED <<prog_cfg, lock_cfg, dev, flash, reset, windowVars, parserVars,
                   panicked, wave, xc, pipeVars>>

NextSerial == RoundTrip

SpecSerial == InitSerial /\ [][NextSerial]_vars

-----------------------------------------------------------------------------
(* SpecMode: PiezoSensorHandler::set_interrupt_mode on its own, called with  *)
(* either mode on the handler PiezoSensorHandler::new returns.               *)

\* Compare values (u16) of the TIMER modes requested.
ModeCompares == {0, 1, 500, INTERRUPT_SAMPLER_TIMER_CC, 1001, 65535}

\* The values of PiezoSensorSampleMode requested.
SampleModes == {HALT} \cup {TIMER(cc) : cc \in ModeCompares}

InitMode ==
    /\ win = SampleWindow_new(FILLER)
    /\ stored = <<>>
    /\ panicked = ""
    /\ ParserInit
    /\ wave = [c \in Channels |-> "quiet"]
    /\ xc = XcIdle
    /\ PipeInit
    /\ SideInit

\* One set_interrupt_mode(mode) call on the handler as the hardware left it.
SetInterruptMode ==
    /\ \E mode \in SampleModes, h \in watchdog_outcomes(hw) :
         /\ hw' = set_interrupt_mode(h, mode)
         /\ sent' = [called |-> TRUE, mode |-> mode, hw |-> h]
    /\ UNCHANGED <<sideVars, windowVars, parserVars, panicked, wave, xc, queue,
                   adc_unmasked, receiver_alive, pc, held, sender, produced,
                   accepted, parsed, recv_since_disable>>

NextMode == SetInterruptMode

SpecMode == InitMode /\ [][NextMode]_vars

-----------------------------------------------------------------------------
(* SpecSend: PiezoSensorHandler::send on its own, called on a handler in     *)
(* either mode, a queue of any fill level and a channel with or without its  *)
(* receiver.                                                                 *)

\* Fill levels of the queue when the first send() is made.
SendQueueLens ==
    {0, 1, PIEZO_SENSOR_QUEUE_CAPACITY - 1, PIEZO_SENSOR_QUEUE_CAPACITY}

\* The handler in each value of PiezoSensorSampleMode.
SendHandlers ==
    {set_pssm_halt(PiezoSensorHandler_configured), PiezoSensorHandler_new}

InitSend ==
    /\ win = SampleWindow_new(FILLER)
    /\ stored = <<>>
    /\ panicked = ""
    /\ ParserInit
    /\ wave = [c \in Channels |-> "quiet"]
    /\ xc = XcIdle
    /\ hw \in SendHandlers
    /\ \E n \in SendQueueLens :
         /\ queue = [i \in 1..n |-> [seq |-> i, data |-> QuietData]]
         /\ produced = n
         /\ accepted = [i \in 1..n |-> i]
    /\ adc_unmasked = TRUE
    /\ receiver_alive \in BOOLEAN
    /\ pc = "recv"
    /\ held = NoSample
    /\ sender = NoReport
    /\ parsed = <<>>
    /\ recv_since_disable = TRUE
    /\ sent = NotSent
    /\ SideInit

NextSend == SensorHandling

SpecSend == InitSend /\ [][NextSend]_vars

-----------------------------------------------------------------------------
(* Claims about SampleWindow (SpecWindow) *)

CountIn(f, v) == Cardinality({k \in DOMAIN f : f[k] = v})

\* The values store() received in its last WINDOW_SIZE calls.
Recent ==
    IF Len(stored) <= WINDOW_SIZE THEN stored
    ELSE SubSeq(stored, Len(stored) - WINDOW_SIZE + 1, Len(stored))

\* C1: after every store() the sorted vector has N elements, is in
\* non-decreasing order and is multiset-equal to the FIFO, which holds the N
\* most recently stored values, fillers standing in for the slots not yet
\* overwritten.
C1_SortedIsPermutationOfRecent ==
    /\ Len(win.sorted) = WINDOW_SIZE
    /\ \A k \in 1..(WINDOW_SIZE - 1) : win.sorted[k] <= win.sorted[k + 1]
    /\ \A v \in StoreValues \cup {FILLER} :
         /\ CountIn(win.sorted, v) = CountIn(win.fifo, v)
         /\ CountIn(win.fifo, v) =
              CountIn(Recent, v) + (IF v = FILLER THEN WINDOW_SIZE - Len(Recent) ELSE 0)

\* C1 witness: the window has wrapped, evicted stored values and holds duplicates.
C1_Witness ==
    /\ Len(stored) = WINDOW_SIZE + 2
    /\ win.index_fifo = 2
    /\ win.fifo[0] = win.fifo[3]
    /\ win.fifo[1] # win.fifo[2]
    /\ stored[1] # win.fifo[0]

\* C2: min() is the smallest and max() the largest value of the FIFO, and
\* threshold() is the element of 0-based rank N/2 of the FIFO contents; with
\* N = 4, filler 0 and stores 10, 20, 5, 15: sorted = [5, 10, 15, 20],
\* median 15, min 5, max 20.
C2_OrderStatistics ==
    LET idx  == 0..(WINDOW_SIZE - 1)
        vals == {win.fifo[k] : k \in idx}
        t    == threshold(win)
    IN  /\ min(win) \in vals /\ \A v \in vals : min(win) <= v
        /\ max(win) \in vals /\ \A v \in vals : v <= max(win)
        /\ t \in vals
        /\ Cardinality({k \in idx : win.fifo[k] < t}) <= WINDOW_SIZE \div 2
        /\ Cardinality({k \in idx : win.fifo[k] <= t}) > WINDOW_SIZE \div 2
        /\ (WINDOW_SIZE = 4 /\ stored = <<10, 20, 5, 15>>) =>
              /\ win.sorted = <<5, 10, 15, 20>>
              /\ t = 15 /\ min(win) = 5 /\ max(win) = 20

\* C2 witness: the scenario of the claim has been played.
C2_Witness ==
    /\ stored = <<10, 20, 5, 15>>
    /\ win.sorted = <<5, 10, 15, 20>>
    /\ win.fifo[2] = 5

\* C24: in every reachable state of a SampleWindow store() completes without
\* taking a fatal path: the evicted value is found in the sorted vector, the
\* insert finds room and the sortedness assertion holds, also with
\* duplicates in the window.
C24_StoreNeverPanics ==
    /\ panicked = ""
    /\ \A v \in StoreValues : store_outcome(win, v).panic = ""
    /\ binary_search(win.sorted, win.fifo[win.index_fifo]).ok
    /\ Len(vec_remove(win.sorted, binary_search(win.sorted, win.fifo[win.index_fifo]).i))
         < WINDOW_SIZE

\* C24 witness: the window has wrapped and holds two pairs of duplicates, one
\* of them about to be evicted.
C24_Witness ==
    /\ Len(stored) = MaxStores
    /\ panicked = ""
    /\ win.fifo[win.index_fifo] = win.fifo[(win.index_fifo + 1) % WINDOW_SIZE]
    /\ Cardinality({win.fifo[k] : k \in 0..(WINDOW_SIZE - 1)}) = 2
    /\ win.fifo[win.index_fifo] # FILLER

\* C25: store(new) overwrites exactly the FIFO slot at the cursor, which held
\* the value stored N calls earlier or the filler, leaves the other N - 1
\* slots unchanged and advances the cursor to (cursor + 1) mod N, so that the
\* cursor is 0 after every N-th store.
C25_StoreFrame ==
    [][/\ win.fifo[win.index_fifo] =
             (IF Len(stored) >= WINDOW_SIZE THEN stored[Len(stored) - WINDOW_SIZE + 1]
              ELSE FILLER)
       /\ win'.fifo[win.index_fifo] = stored'[Len(stored')]
       /\ \A k \in 0..(WINDOW_SIZE - 1) : k # win.index_fifo => win'.fifo[k] = win.fifo[k]
       /\ win'.index_fifo = (win.index_fifo + 1) % WINDOW_SIZE
       /\ win'.index_fifo = 0 <=> Len(stored') % WINDOW_SIZE = 0]_vars

\* C25 witness: the store after the cursor came back to 0 has overwritten
\* slot 0, which held a stored value different from the new one.
C25_Witness ==
    /\ Len(stored) = WINDOW_SIZE + 1
    /\ win.index_fifo = 1
    /\ win.fifo[0] = stored[WINDOW_SIZE + 1]
    /\ stored[1] # stored[WINDOW_SIZE + 1]
    /\ stored[1] # FILLER
    /\ \A k \in 1..(WINDOW_SIZE - 1) : win.fifo[k] = stored[k + 1]

\* C26: from any window state, N consecutive store(v) calls with the same v
\* yield a sorted vector of N copies of v and min() = threshold() = max() = v.
C26_ConstantFillsWindow ==
    (/\ Len(stored) >= WINDOW_SIZE
     /\ \A k \in (Len(stored) - WINDOW_SIZE + 1)..Len(stored) : stored[k] = stored[Len(stored)]) =>
        /\ win.sorted = [k \in 1..WINDOW_SIZE |-> stored[Len(stored)]]
        /\ min(win) = stored[Len(stored)]
        /\ threshold(win) = stored[Len(stored)]
        /\ max(win) = stored[Len(stored)]

\* C26 witness: a window holding two different stored values and fillers was
\* then given the same value N times.
C26_Witness ==
    /\ Len(stored) = WINDOW_SIZE + 2
    /\ stored[1] > stored[3] /\ stored[2] < stored[3]
    /\ \A k \in 3..(WINDOW_SIZE + 2) : stored[k] = stored[3]
    /\ win.sorted = [k \in 1..WINDOW_SIZE |-> stored[3]]

-----------------------------------------------------------------------------
(* Claims about Parser::parse (SpecParser) *)

\* The channels the first stage of the last call turned from not-hit to hit.
NewlyHit == {c \in Channels : ~last.pre[c] /\ last.stage1[c]}

\* C3: parse() returns a report only when the ChannelState array after the
\* call differs from the one carried by the last report returned (all FALSE
\* before any report).
C3_ReportOnlyOnChange ==
    (last.calls = 1 /\ ret.some) => states # last.reported

\* C4: a comparison of two channels both flagged hit whose delay lies within
\* the tie-break band (magnitude at most 5, zero included) clears neither.
C4_TieBreakKeepsBoth ==
    \A k \in 1..Len(last.log) :
        LET e == last.log[k]
        IN  (e.before[e.i] /\ e.before[e.j] /\ Abs(e.delay) <= 5) =>
                (e.after[e.i] /\ e.after[e.j])

\* C5: the pairwise pass runs only if at least two channels turned from
\* not-hit to hit in that evaluation; with fewer, no pair is compared and no
\* channel is cleared as crosstalk.
C5_PassNeedsTwoNewHits ==
    Cardinality(NewlyHit) < 2 => (last.log = <<>> /\ states = last.stage1)

\* C7: within one pass a channel that has been cleared takes part in no later
\* comparison: every comparison is between two channels flagged hit.
C7_ClearedChannelLeavesPass ==
    \A k \in 1..Len(last.log) :
        LET e == last.log[k]
        IN  e.before[e.i] /\ e.before[e.j]

\* C11: a channel is evaluated only by the parse call whose store has just
\* wrapped the cursor to 0, which is every WINDOW_SIZE-th call and no other;
\* every other call leaves the four states as they were and returns None.
C11_EvaluatedOnlyOnWrap ==
    last.calls = 1 =>
        /\ last.evaluated <=> last.nth = WINDOW_SIZE
        /\ last.evaluated <=> (\A c \in Channels : windows[c].index_fifo = 0)
        /\ ~last.evaluated => (states = last.pre /\ ~ret.some)

\* C11 witness: a call between two wraps, made while a channel is flagged hit,
\* kept the flag and returned None.
C11_Witness ==
    /\ last.calls = 1
    /\ last.nth = 1
    /\ last.total = WINDOW_SIZE
    /\ ~last.evaluated
    /\ \E c \in Channels : states[c] /\ last.pre[c]
    /\ ~ret.some

\* C12: each of the first WINDOW_SIZE - 1 parse calls after construction
\* returns None and leaves the four states false, whatever the samples and
\* the configuration.
C12_NoHitBeforeWindowFills ==
    (last.total > 0 /\ last.total < WINDOW_SIZE) =>
        /\ ~ret.some
        /\ \A c \in Channels : ~states[c]

\* C12 witness: the last call before the first wrap, with a strike already
\* stored in a window, reported nothing.
C12_Witness ==
    /\ last.total = WINDOW_SIZE - 1
    /\ \E c \in Channels : max(windows[c]) > 0
    /\ ~ret.some
    /\ \A c \in Channels : ~states[c]

\* C27: every change of the ChannelState array is reported: a parse() call
\* that leaves the array different from what it was before the call (new
\* hit, release, or clear by the disambiguator) returns a report.
C27_ChangeIsReported ==
    (last.calls = 1 /\ last.panic = "" /\ states # last.pre) => ret.some

\* C27 witness: in one call a channel flagged hit before and still deviating
\* was cleared by the disambiguator in favour of a new hit, and a report was
\* returned.
C27_Witness ==
    /\ last.calls = 1 /\ ret.some
    /\ \E c \in Channels : last.pre[c] /\ last.stage1[c] /\ ~states[c]
    /\ \E c \in Channels : ~last.pre[c] /\ states[c]

\* The centred samples of the period channel c has just been fed, in arrival
\* order: sample k of the period is the k-th call of the period.
PeriodSamples(c) ==
    [k \in 0..(WINDOW_SIZE - 1) |-> RawSample(wave[c], k) - MID_RANGE]

\* C33: whenever a channel is evaluated or handed to xcorr, its FIFO array
\* holds exactly the WINDOW_SIZE most recent centred samples in arrival
\* order, the oldest at index 0, the cursor at 0, and no slot still holds
\* the content it was constructed with.
C33_FifoHoldsLastPeriod ==
    (last.calls = 1 /\ (last.evaluated \/ last.log # <<>>)) =>
        \A c \in Channels :
            /\ windows[c].index_fifo = 0
            /\ windows[c].fifo = PeriodSamples(c)
            /\ last.total = WINDOW_SIZE

\* C33 witness: two channels that carry pulses at different positions are
\* evaluated and handed to xcorr after an earlier period of other samples.
C33_Witness ==
    /\ last.calls = 1 /\ last.evaluated /\ last.log # <<>>
    /\ \E c, d \in Channels :
         /\ wave[c] = "early" /\ wave[d] = "late"
         /\ windows[c].fifo # windows[d].fifo
         /\ \E k \in 0..(WINDOW_SIZE - 1) : windows[c].fifo[k] # FILLER
    /\ \E c \in Channels : last.pre[c]

\* The window of channel c holds one value in all its slots.
ConstantWindow(c) ==
    \A k \in 0..(WINDOW_SIZE - 1) : windows[c].fifo[k] = windows[c].fifo[0]

\* C30: no key stays stuck: a channel whose reading is constant is not
\* flagged hit after the evaluation that ends the first window made of that
\* reading only, for every sharpness and sensitivity, and it stays not
\* flagged as long as the reading stays constant: between evaluations the
\* state does not change, and every later evaluation finds a constant window
\* again.
C30_ConstantReadingReleases ==
    /\ (last.calls = 1 /\ last.evaluated) =>
          \A c \in Channels : ConstantWindow(c) => ~states[c]
    /\ (last.calls = 1 /\ ~last.evaluated) => states = last.pre
    /\ panicked = ""

\* C30 witness: a channel flagged hit, then held at a level away from the
\* midpoint for a whole window, is released by the evaluation that ends
\* that window, while another channel is flagged in the same evaluation.
C30_Witness ==
    /\ last.calls = 1 /\ last.evaluated
    /\ \E c \in Channels :
         /\ last.pre[c] /\ ~states[c]
         /\ ConstantWindow(c) /\ windows[c].fifo[0] = PulseAmp
    /\ \E c \in Channels : states[c]
    /\ last.log # <<>>

\* The number of channels before c that are flagged hit.
HitsBefore(c) == Cardinality({d \in Channels : d < c /\ states[d]})

\* C21: a report carries exactly the keycodes mapped to the channels whose
\* state is true when parse() returns, in the order left_kat, left_don,
\* right_don, right_kat, and zero in every remaining slot.
C21_ReportHoldsHitKeys ==
    (last.calls = 1 /\ ret.some) =>
        /\ \A c \in Channels :
              states[c] => ret.keycode[HitsBefore(c)] = DefaultHitMapping[c + 1]
        /\ \A k \in 0..5 :
              k >= Cardinality({c \in Channels : states[c]}) => ret.keycode[k] = 0

\* C21 witness: a report made after a disambiguation pass that cleared a
\* channel and left a channel other than the first flagged hit.
C21_Witness ==
    /\ last.calls = 1 /\ ret.some
    /\ last.log # <<>>
    /\ states # last.stage1
    /\ \E c \in Channels : c > 0 /\ states[c]

-----------------------------------------------------------------------------
(* Claims about check_deviation (SpecDeviation) *)

\* C13: for sharpness > 0, check_deviation is true exactly when
\* 100 * |max - median| > sensitivity * sharpness or
\* 100 * |min - median| > sensitivity * sharpness, the comparison being strict;
\* median 100, min 90, max 140, sharpness 64 is a hit with sensitivity 50 and
\* no hit with sensitivity 100.
C13_DeviationThreshold ==
    (dev.phase = "done" /\ dev.scale > 0) =>
        /\ dev.result <=>
              \/ 100 * Abs(dev.max_val - dev.median) > dev.percent * dev.scale
              \/ 100 * Abs(dev.min_val - dev.median) > dev.percent * dev.scale
        /\ (dev.median = 100 /\ dev.min_val = 90 /\ dev.max_val = 140 /\ dev.scale = 64) =>
              /\ dev.percent = 50 => dev.result
              /\ dev.percent = 100 => ~dev.result

\* C13 witness: the example with sensitivity 50 was evaluated and is a hit.
C13_Witness ==
    /\ dev.phase = "done"
    /\ dev.median = 100 /\ dev.min_val = 90 /\ dev.max_val = 140
    /\ dev.scale = 64 /\ dev.percent = 50
    /\ dev.result

-----------------------------------------------------------------------------
(* Claims about the pair comparison (SpecXcorr) *)

C28_AtMostOneHitAfterPass ==
    xc.phase = "done" => Cardinality({c \in Channels : xc.out[c]}) <= 1

\* C28 witness: all four channels entered the pass, comparisons took both
\* arms of the match, and a single channel other than the first and the last
\* is left.
C28_Witness ==
    /\ xc.phase = "done"
    /\ \A c \in Channels : xc.st[c]
    /\ \E k \in 1..Len(xc.log) : xc.log[k].delay < 0
    /\ \E k \in 1..Len(xc.log) : xc.log[k].delay > 0
    /\ xc.out = [c \in Channels |-> c = 2]

\* C29: a disambiguation pass never clears every channel: with at least one
\* channel flagged hit when it starts, at least one is flagged hit when it
\* ends, for every combination of delay signs.
C29_PassKeepsAHit ==
    (xc.phase = "done" /\ \E c \in Channels : xc.st[c]) => \E c \in Channels : xc.out[c]

\* C29 witness: a channel already cleared went on being compared and cleared
\* another one, and a channel is left all the same.
C29_Witness ==
    /\ xc.phase = "done"
    /\ \E k \in 1..Len(xc.log) :
         /\ ~xc.log[k].before[xc.log[k].i]
         /\ xc.log[k].before[xc.log[k].j] /\ ~xc.log[k].after[xc.log[k].j]
    /\ Cardinality({c \in Channels : xc.st[c]}) = 3
    /\ Cardinality({c \in Channels : xc.out[c]}) = 1

\* C22: xcorr of a signal with an exact copy of itself returns delay 0, also
\* for a constant signal (all zeros once the median is removed).
C22_SelfCorrelationZero ==
    xc.phase = "done" => xc.delay = 0

\* C23: no arithmetic step of xcorr overflows i16: the median subtraction and
\* the product of one spectrum with the conjugate of the other stay within
\* i16 or saturate; they neither wrap nor trap.
C23_NoOverflow ==
    xc.phase = "done" =>
        /\ ~xc.sub.overflow
        /\ ~xc.mul.overflow \/ (xc.mul.panic = "" /\ xc.mul.value \in {I16_MIN, I16_MAX})

-----------------------------------------------------------------------------
(* Claims about the sample queue (SpecPipe, FairSpecPipe) *)

\* Production numbers of the queued samples, oldest first.
QueueSeqs == [k \in 1..Len(queue) |-> queue[k].seq]

\* The consumer has taken nothing out of the queue yet.
NotDrained == parsed = <<>> /\ held = NoSample

FirstSamples(n) == [k \in 1..n |-> k]

\* C8: the queue holds 32 samples.  While the consumer drains nothing, the
\* first 32 samples sent are queued in the order sent, the 33rd is dropped,
\* and ADC1_2 is masked by the 33rd send and by none before it.
C8_First32KeptThirtyThirdDropped ==
    NotDrained =>
        /\ produced <= PIEZO_SENSOR_QUEUE_CAPACITY + 1
        /\ QueueSeqs = FirstSamples(IF produced <= PIEZO_SENSOR_QUEUE_CAPACITY
                                    THEN produced ELSE PIEZO_SENSOR_QUEUE_CAPACITY)
        /\ adc_unmasked <=> produced <= PIEZO_SENSOR_QUEUE_CAPACITY

\* C8 witness: 33 samples sent with nothing drained: 32 queued, ADC1_2 masked.
C8_Witness ==
    /\ NotDrained
    /\ produced = PIEZO_SENSOR_QUEUE_CAPACITY + 1
    /\ Len(queue) = PIEZO_SENSOR_QUEUE_CAPACITY
    /\ ~adc_unmasked

\* C9: once ADC1_2 was masked because the queue was full it stays masked
\* until app::Parser has taken at least one sample out of the queue, and
\* while app::Parser keeps being scheduled it is eventually unmasked again.
C9_MaskedUntilDrained ==
    /\ [][(~adc_unmasked /\ adc_unmasked') => recv_since_disable]_vars
    /\ (~adc_unmasked ~> adc_unmasked)

\* The liveness half of C9 alone.
C9_EventuallyUnmasked == ~adc_unmasked ~> adc_unmasked

\* C10: samples reach Parser::parse in the order they were enqueued, and
\* every enqueued sample is parsed exactly once: at any moment the enqueued
\* samples are those already parsed, then the one app::Parser holds, then the
\* queue's content, with no sample twice.
C10_FifoExactlyOnce ==
    /\ accepted = parsed \o (IF held = NoSample THEN <<>> ELSE <<held.seq>>) \o QueueSeqs
    /\ \A a, b \in DOMAIN accepted : a < b => accepted[a] < accepted[b]

\* C10 witness: a sample was dropped on a full queue, several samples have
\* been parsed since, one is held and others still wait in the queue.
C10_Witness ==
    /\ produced > Len(accepted)
    /\ Len(parsed) >= 3
    /\ held # NoSample
    /\ Len(queue) >= 2

-----------------------------------------------------------------------------
(* Claims about the acquisition handler (SpecStartup, SpecSend) *)

\* C14: the handler leaves Halt for Timer(period) only after the analog
\* watchdog has detected activity on a channel; before the first watchdog
\* event the handler is in Halt with the sampling timer stopped.
C14_TimerOnlyAfterWatchdog ==
    /\ hw.mode # HALT => hw.awd
    /\ ~hw.awd => (hw.mode = HALT /\ ~hw.cen)

C17_NoReceiverDrops ==
    (sent.called /\ sent.jeoc /\ ~receiver_alive) =>
        /\ sent.err = "NoReceiver"
        /\ queue = sent.queue
        /\ accepted = [i \in 1..Len(accepted) |-> i] /\ Len(accepted) = Len(queue)
        /\ adc_unmasked

\* C17 witness: two samples in a row were lost for want of a receiver, the
\* queue being full.
C17_Witness ==
    /\ sent.called /\ sent.jeoc /\ ~receiver_alive
    /\ sent.err = "NoReceiver"
    /\ Len(queue) = PIEZO_SENSOR_QUEUE_CAPACITY
    /\ produced = Len(queue) + 2
    /\ adc_unmasked

\* C18: send() invoked with JEOC clear returns without reading the data
\* registers, pushes nothing, and leaves queue, mode and interrupt mask as
\* they were.
C18_NotReadySkips ==
    (sent.called /\ ~sent.jeoc) =>
        /\ ~sent.read
        /\ sent.err = "NotReady"
        /\ queue = sent.queue
        /\ hw.mode = sent.hw.mode
        /\ adc_unmasked = sent.unmasked

\* C18 witness: a call with JEOC clear on a full queue with a live receiver,
\* after which the interrupt is still unmasked.
C18_Witness ==
    /\ sent.called /\ ~sent.jeoc /\ ~sent.read
    /\ receiver_alive
    /\ Len(queue) = PIEZO_SENSOR_QUEUE_CAPACITY
    /\ adc_unmasked

-----------------------------------------------------------------------------
(* Claims about the sampling mode (SpecMode) *)

\* The hardware configuration of mode HALT: watchdog and its interrupt
\* enabled, JEOC interrupt disabled, timer stopped.
HaltConfiguration(h) == h.jawden /\ h.awdie /\ ~h.jeocie /\ ~h.cen

\* The hardware configuration of mode TIMER(cc): watchdog and its interrupt
\* disabled, JEOC interrupt enabled, compare value cc, timer running.
TimerConfiguration(h, cc) ==
    ~h.jawden /\ ~h.awdie /\ h.jeocie /\ h.ccr1 = cc /\ h.cen

\* C32: after PiezoSensorHandler::new and after every set_interrupt_mode
\* call the recorded mode matches the hardware: HALT iff the halt
\* configuration is in place, TIMER(cc) iff the timer configuration with
\* compare value cc is in place; and a call with the current mode changes
\* nothing.
C32_ModeMatchesHardware ==
    /\ hw.mode = HALT <=> HaltConfiguration(hw)
    /\ \A cc \in 0..65535 : hw.mode = TIMER(cc) <=> TimerConfiguration(hw, cc)
    /\ (sent.called /\ sent.mode = sent.hw.mode) => hw = sent.hw

\* C32 witness: the handler was in TIMER mode with one compare value, was
\* asked for HALT and is there, the compare register still holding the old
\* value.
C32_Witness ==
    /\ sent.called
    /\ sent.hw.mode = TIMER(500)
    /\ sent.mode = HALT
    /\ hw.mode = HALT
    /\ hw.ccr1 = 500

-----------------------------------------------------------------------------
(* Claims about the serial programmer (SpecProgram) *)

RECURSIVE apply_fields(_, _)
\* The configuration c with the values the fields fs carry.
apply_fields(c, fs) ==
    IF fs = <<>> THEN c
    ELSE LET f == Head(fs)
         IN  apply_fields(IF f[1] = SENS THEN [c EXCEPT !.sensitivity = f[2]]
                          ELSE IF f[1] = SHARP THEN [c EXCEPT !.sharpness = f[2]]
                          ELSE [c EXCEPT !.hit_mapping[KeyChannel(f[1])] = f[2]],
                          Tail(fs))

\* The last program() call executed Command::Write (it received the command
\* and wrote the acknowledge).
WriteExecuted ==
    /\ prog.called
    /\ prog.io.read = "data" /\ prog.io.ack
    /\ prog.rx.cmd = Command_Write

\* C34: when the programmer receives a Write command followed by a
\* well-formed payload of tagged fields, it replaces its configuration with
\* the values the payload carries and saves the new configuration to flash.
C34_WriteInstallsPayload ==
    (WriteExecuted /\ prog.rx.tail = <<>>) =>
        /\ prog_cfg = apply_fields(prog.cfg, prog.rx.fields)
        /\ flash.saved
        /\ prog.io.erased => flash.page = prog_cfg

\* C35: handling a Reset command never fails to spawn the firmware-reset
\* task: a Reset command received while an earlier reset is pending does not
\* make the spawn fail and panic.
C35_ResetSpawnNeverFails ==
    panicked # "Reset function cannot be called more than once."

\* C37: when deserialize() returns an error during a Write command, the
\* programmer's configuration is left as it was and nothing is written to
\* flash, even if earlier fields of the payload were valid.
C37_FailedWriteChangesNothing ==
    (WriteExecuted /\ ~prog.result.ok) =>
        /\ prog_cfg = prog.cfg
        /\ flash = prog.flash
        /\ panicked = ""

\* C37 witness: a Write whose payload holds valid fields followed by an
\* unknown tag has failed.
C37_Witness ==
    /\ WriteExecuted /\ ~prog.result.ok
    /\ Len(prog.rx.fields) > 1
    /\ prog.rx.tail = <<153>>

-----------------------------------------------------------------------------
(* Claims about the byte format of a configuration (SpecSerial) *)

\* C36: serialization round-trips: for every DrumConfig c, deserializing the
\* buffer c.serialize() wrote returns Ok with a configuration whose key
\* mapping, sensitivity and sharpness equal those of c.
C36_RoundTrip ==
    prog.called =>
        /\ prog.result.ok
        /\ prog.result.cfg.hit_mapping = prog_cfg.hit_mapping
        /\ prog.result.cfg.sensitivity = prog_cfg.sensitivity
        /\ prog.result.cfg.sharpness = prog_cfg.sharpness

-----------------------------------------------------------------------------
(* Claims about task priorities (SpecPipe) *)

\* C19: app::Parser runs at a priority strictly above app::UsbHidSender, so a
\* pending or running output task never delays the consumption of the next
\* queued sample.
C19_ParserAboveSender ==
    (sender # NoReport /\ panicked = "") =>
        /\ priority.Parser > priority.UsbHidSender
        /\ parser_may_run

\* C19 amended: app::Parser runs at a priority strictly below
\* app::UsbHidSender.  An output task is pending only right after the lock in
\* which app::Parser spawned it, and app::Parser does not continue (neither
\* unmasks ADC1_2 nor receives the next sample) until the output task has
\* finished; hence at most one output task is pending and spawn never fails.
C19_SenderAboveParser ==
    /\ priority.Parser < priority.UsbHidSender
    /\ sender # NoReport => (pc = "enable" /\ ~parser_may_run /\ sender_may_run)
    /\ panicked # "Higher priority task spawn condition."

\* C31: spawning the output task from app::Parser never fails: whenever
\* app::Parser is about to take the lock in which it may call
\* UsbHidSender::spawn, and in every state app::Parser can run in, the
\* previously spawned instance has completed, under every interleaving with
\* the ADC1_2 handler; the expect on the spawn result never fires.
C31_SpawnNeverFails ==
    /\ (pc = "lock" \/ parser_may_run) => sender = NoReport
    /\ panicked # "Higher priority task spawn condition."

\* C31 witness: a second report has been spawned after the first output task
\* completed, with the ADC1_2 handler having queued further samples meanwhile.
C31_Witness ==
    /\ sender # NoReport
    /\ panicked = ""
    /\ Len(parsed) >= 2 * WINDOW_SIZE
    /\ queue # <<>>
    /\ sent.called

\* C19 witness: an output task is pending while a sample waits in the queue.
C19_Witness ==
    /\ sender # NoReport
    /\ panicked = ""
    /\ queue # <<>>
    /\ pc = "enable"

-----------------------------------------------------------------------------
(* Claims about the configuration (SpecConfig) *)

====
